---------------------------- MODULE Spec2Model ----------------------------
(***************************************************************************)
(* TreeTrace (JainCK/treetrace): a Next.js front end over a remote         *)
(* backend-as-a-service.  The module models the page components, the      *)
(* dashboard's client state, the tree search query and the tree form's     *)
(* submission as state machines, one specification per component.          *)
(*                                                                         *)
(* Nullable values of the code (T | null) are encoded as sequences of at   *)
(* most one element: Null is <<>>, Some(x) is <<x>>.  Text is a sequence   *)
(* of one-character strings, so that split/join/encode/match are computed. *)
(***************************************************************************)
EXTENDS Integers, Sequences, FiniteSets, TLC

VARIABLES
    \* ---- app/admin/page.tsx: one request to AdminPage / getUsersData
    ap_pc,          \* position of the request: idle, getUser, profile, list, rendered, redirected
    ap_page,        \* page argument of getUsersData
    ap_search,      \* searchQuery argument of getUsersData
    ap_user,        \* `user` of supabase.auth.getUser()
    ap_userError,   \* `error` of supabase.auth.getUser()
    ap_profile,     \* `userProfileData` of the caller's profile lookup
    ap_profileError,\* `userProfileError` of the caller's profile lookup
    ap_isAdmin,     \* local isAdmin
    ap_redirect,    \* target of redirect(), Null when none was thrown
    ap_issued,      \* the table queries issued so far, in order
    ap_count,       \* count handed to UserManagerClient as initialTotalProfiles
    \* ---- app/trees/new, app/trees/[id]/edit, app/trees/[id]: one page request
    pg_trees,       \* the trees table: tree id -> Null or the row with its tree_images
    pg_route,       \* the page requested: none, new, edit, detail
    pg_pc,          \* position of the request
    pg_viewer,      \* the session of the person asking (Null: not signed in)
    pg_id,          \* params.id
    pg_user,        \* `user` of supabase.auth.getUser()
    pg_profile,     \* `userProfileData` of getTree (detail page)
    pg_isAdmin,     \* isAdmin of getTree (detail page)
    pg_fault,       \* whether the backend failed the request's tree query
    pg_outcome,     \* what the request produced: none, form, detail, notFound, redirect
    pg_controls,    \* whether the Edit and Delete controls are in the rendered detail page
    \* ---- app/dashboard/page.tsx: DashboardPage
    dash_user,        \* useState user
    dash_trees,       \* useState trees (the ids of the rows shown)
    dash_loading,     \* useState loading
    dash_isAdmin,     \* useState isAdmin
    dash_currentPage, \* useState currentPage
    dash_totalTrees,  \* useState totalTrees
    dash_searchQuery, \* useState searchQuery
    dash_handlers,    \* runs of the onAuthStateChange callback that await a response
    dash_session,     \* the auth session the client holds
    dash_route,       \* where the router is: /dashboard, or / after router.push("/")
    dash_lastLookup,  \* outcome of the profile lookup that completed last
    \* ---- fetchTrees against a trees table
    s_table,        \* the rows of the trees table, in insertion order
    s_seeded,       \* whether scripts/seed-data.js filled the table
    s_query,        \* searchQuery of the last fetchTrees call
    s_page,         \* page of the last fetchTrees call
    s_pageSize,     \* pageSize of the last fetchTrees call
    s_error,        \* whether the backend failed the last call
    s_result,       \* what the last call returned (the ids of trees, and count)
    \* ---- components/tree-form.tsx and the backend it writes to
    f_pc,           \* closed, idle, or the await onSubmit is at
    f_initial,      \* initialData: Null (new tree) or the tree being edited
    f_defaults,     \* defaultValues of the form
    f_images,       \* images state: Null or the selected file names
    f_loading,      \* loading state
    f_error,        \* error state (a message, "" when none)
    f_invalid,      \* whether the resolver rejected the last submit
    f_data,         \* data of the last submission handed to onSubmit
    f_user,         \* user returned by getUser in this submission
    f_treeId,       \* treeId of this submission
    f_written,      \* the record given to insert or update in this submission
    f_calls,        \* the writing calls issued by this submission
    f_urls,         \* imageUrls returned by uploadImages
    f_onSuccess,    \* the id onSuccess was called with, in this submission
    f_submits,      \* number of submissions so far (the clock of Date.now())
    db_trees,       \* trees table
    db_images,      \* tree_images table
    storage,        \* object paths in bucket treeimages
    up_log,         \* every upload that succeeded: its path and public URL
    \* ---- the create-user and delete-user proxy routes
    px_pc,          \* idle, reading (request.json), fetching, done
    px_route,       \* the route that was called
    px_request,     \* body of the request
    px_auth,        \* Authorization header of the request (Null when absent)
    px_forwarded,   \* the call made to the remote function
    px_reply,       \* the remote function's reply
    px_responses,   \* the responses the route has returned for this request
    \* ---- scripts/seed-data.js: one run of seedData against empty tables
    seed_pc,              \* idle, tree (awaiting a tree insert), images (awaiting an image insert), done
    seed_allDummyTrees,   \* allDummyTrees
    seed_index,           \* position of the loop over allDummyTrees (0-based)
    seed_newTree,         \* id of the row the last tree insert returned
    seed_treesTable,      \* the rows of the trees table, in insertion order
    seed_imagesTable,     \* the rows of the tree_images table, in insertion order
    seed_successCount,    \* successCount
    seed_premiumCount,    \* premiumCount
    seed_totalImages,     \* totalImages
    \* ---- components/admin/user-manager-client.tsx: UserManagerClient and the profiles behind it
    um_version,           \* which of the two versions of the component runs: shared (one loading flag) or granular
    um_mounted,           \* whether the mount effects have run
    um_location,          \* window.location: /admin, or / after a self-delete
    um_table,             \* the profiles table: profile id -> role name, for the profiles that exist
    um_created,           \* number of accounts the remote function created
    um_remote,            \* the calls issued to the backend and the proxy routes, in order
    um_profiles,          \* useState profiles (id and role name of the rows shown)
    um_roles,             \* useState roles
    um_currentUserId,     \* useState currentUserId
    um_loading,           \* useState loading (shared) / isFetchingUsers (granular)
    um_isCreatingUser,    \* useState isCreatingUser (granular)
    um_isUpdatingRole,    \* useState isUpdatingRole (granular)
    um_deletingUserId,    \* useState deletingUserId (granular)
    um_error,             \* useState error (shared) / manageUserError (granular)
    um_success,           \* useState creationSuccess (shared) / manageUserSuccess (granular)
    um_createError,       \* useState createUserError (granular)
    um_createSuccess,     \* useState createUserSuccess (granular)
    um_currentPage,       \* useState currentPage
    um_totalProfiles,     \* useState totalProfiles
    um_searchQuery,       \* useState searchQuery
    um_selectedNewUserRole,\* useState selectedNewUserRole
    um_formResets,        \* number of calls of resetNewUserForm
    um_pending,           \* the asynchronous operations that await an answer
    um_deleteCalls,       \* the ids handleDeleteUser was invoked with
    \* ---- components/tree-detail-client.tsx: TreeDetailClient.handleDelete and the backend it calls
    td_tree,              \* the tree prop: id, user_id and the image URLs of tree_images
    td_isAdmin,           \* the isAdmin prop
    td_pc,                \* idle, removing (awaiting Promise.all), deleting (awaiting the row delete)
    td_loading,           \* useState loading
    td_attempt,           \* number of confirmed runs of handleDelete so far
    td_waiting,           \* the storage removals that have not answered: run and image index
    td_calls,             \* the calls issued to the backend, in order
    td_storage,           \* object paths in bucket treeimages
    td_rowExists,         \* whether the row of the tree is in the trees table
    td_route,             \* where the router is: the detail page or /dashboard
    td_alerts,            \* number of alerts shown
    \* ---- app/dashboard/page.tsx and the user manager: page ranges and page-number buttons
    pn_count,             \* the exact count the backend reports for the query
    pn_pageSize,          \* the page size of the component
    pn_currentPage,       \* useState currentPage
    pn_buttons,           \* the page indices of the page-number buttons rendered, in order
    pn_requested          \* the ranges requested so far: page, from and to

adminVars == <<ap_pc, ap_page, ap_search, ap_user, ap_userError, ap_profile,
               ap_profileError, ap_isAdmin, ap_redirect, ap_issued, ap_count>>

pageVars == <<pg_trees, pg_route, pg_pc, pg_viewer, pg_id, pg_user, pg_profile,
              pg_isAdmin, pg_fault, pg_outcome, pg_controls>>

dashVars == <<dash_user, dash_trees, dash_loading, dash_isAdmin, dash_currentPage,
              dash_totalTrees, dash_searchQuery, dash_handlers, dash_session,
              dash_route, dash_lastLookup>>

searchVars == <<s_table, s_seeded, s_query, s_page, s_pageSize, s_error, s_result>>

formVars ==
    <<f_pc, f_initial, f_defaults, f_images, f_loading, f_error, f_invalid, f_data,
      f_user, f_treeId, f_written, f_calls, f_urls, f_onSuccess, f_submits,
      db_trees, db_images, storage, up_log>>

proxyVars == <<px_pc, px_route, px_request, px_auth, px_forwarded, px_reply, px_responses>>

seedVars ==
    <<seed_pc, seed_allDummyTrees, seed_index, seed_newTree, seed_treesTable, seed_imagesTable, seed_successCount, seed_premiumCount, seed_totalImages>>

userVars ==
    <<um_version, um_mounted, um_location, um_table, um_created, um_remote, um_profiles, um_roles, um_currentUserId, um_loading, um_isCreatingUser, um_isUpdatingRole, um_deletingUserId, um_error, um_success, um_createError, um_createSuccess, um_currentPage, um_totalProfiles, um_searchQuery, um_selectedNewUserRole, um_formResets, um_pending, um_deleteCalls>>

detailVars ==
    <<td_tree, td_isAdmin, td_pc, td_loading, td_attempt, td_waiting, td_calls, td_storage, td_rowExists, td_route, td_alerts>>

pagingVars ==
    <<pn_count, pn_pageSize, pn_currentPage, pn_buttons, pn_requested>>

vars == <<adminVars, pageVars, dashVars, searchVars, formVars, proxyVars, seedVars, userVars, detailVars, pagingVars>>

-----------------------------------------------------------------------------
\* Nullable values
Null == <<>>
Some(x) == <<x>>
IsNull(v) == v = <<>>
Get(v) == v[1]

\* Bounds of the model
MaxPage == 2
MaxProfiles == 2
MaxTrees == 2
MaxImages == 1
NumTrees == 25
MaxInFlight == 2
MaxRows == 2
MaxFiles == 1
MaxSubmits == 2
MaxStored == 1

\* The people who can hold a session
Users == {"u1", "u2", "u3"}

\* Role names a profile can carry (roles table)
RoleNames == {"admin", "user"}

\* What supabase.auth.getUser() can answer: a user, no user, or an error
AuthResults ==
    [user : {Some(u) : u \in Users}, error : {FALSE}]
        \cup [user : {Null}, error : BOOLEAN]

\* What profiles.select(id, full_name, role:role_id(id, name)).eq(id).single()
\* can answer: an error without data, no data, a profile without a role, or a
\* profile with a role
ProfileData ==
    {Null} \cup {Some([role |-> Null])}
           \cup {Some([role |-> Some([name |-> n])]) : n \in RoleNames}

ProfileResults ==
    [data : ProfileData, error : {FALSE}] \cup [data : {Null}, error : {TRUE}]

-----------------------------------------------------------------------------
(***************************************************************************)
(* app/admin/page.tsx                                                      *)
(***************************************************************************)

\* What an action of the admin page leaves alone
AdminFrame == UNCHANGED <<pageVars, dashVars, searchVars, formVars, proxyVars, seedVars, userVars, detailVars, pagingVars>>

\* `userError || !user` (line 23)
NotAuthenticated(user, userError) == userError \/ IsNull(user)

\* Mutant of AccessDenied: the role name is not compared with "admin"
AccessDeniedAnyRole(data, error) ==
    \/ error
    \/ IsNull(data)
    \/ IsNull(Get(data).role)

\* The condition of the if at lines 44-49
AccessDenied(data, error) ==
    \/ error
    \/ IsNull(data)
    \/ IsNull(Get(data).role)
    \/ Get(Get(data).role).name # "admin"

\* AdminPage (lines 106-114): the request arrives with its search params
AdminPageRequest(page, search) ==
    /\ AdminFrame
    /\ ap_pc = "idle"
    /\ ap_pc' = "getUser"
    /\ ap_page' = page
    /\ ap_search' = search
    /\ ap_user' = Null
    /\ ap_userError' = FALSE
    /\ ap_profile' = Null
    /\ ap_profileError' = FALSE
    /\ ap_isAdmin' = FALSE
    /\ ap_redirect' = Null
    /\ ap_issued' = <<>>
    /\ ap_count' = 0

\* getUsersData lines 16-25: auth.getUser(), redirect("/") throws
AdminGetUser(res) ==
    /\ AdminFrame
    /\ ap_pc = "getUser"
    /\ ap_user' = res.user
    /\ ap_userError' = res.error
    /\ IF NotAuthenticated(res.user, res.error)
         THEN /\ ap_redirect' = Some("/")
              /\ ap_pc' = "redirected"
         ELSE /\ ap_redirect' = ap_redirect
              /\ ap_pc' = "profile"
    /\ UNCHANGED <<ap_page, ap_search, ap_profile, ap_profileError, ap_isAdmin,
                   ap_issued, ap_count>>

\* getUsersData lines 27-57: the caller's profile lookup and the role gate
AdminProfileLookup(res) ==
    /\ AdminFrame
    /\ ap_pc = "profile"
    /\ ap_issued' = Append(ap_issued, "profile")
    /\ ap_profile' = res.data
    /\ ap_profileError' = res.error
    /\ IF AccessDenied(res.data, res.error)
         THEN /\ ap_redirect' = Some("/dashboard")
              /\ ap_pc' = "redirected"
              /\ ap_isAdmin' = FALSE
         ELSE /\ ap_redirect' = ap_redirect
              /\ ap_pc' = "list"
              /\ ap_isAdmin' = TRUE
    /\ UNCHANGED <<ap_page, ap_search, ap_user, ap_userError, ap_count>>

\* getUsersData lines 59-96: the profile list query; an error yields count 0
AdminListQuery(error, count) ==
    /\ AdminFrame
    /\ ap_pc = "list"
    /\ ap_issued' = Append(ap_issued, "list")
    /\ ap_count' = IF error THEN 0 ELSE count
    /\ ap_pc' = "rendered"
    /\ UNCHANGED <<ap_page, ap_search, ap_user, ap_userError, ap_profile,
                   ap_profileError, ap_isAdmin, ap_redirect>>

\* The response is sent; the next request starts from scratch
AdminPageDone ==
    /\ AdminFrame
    /\ ap_pc \in {"rendered", "redirected"}
    /\ ap_pc' = "idle"
    /\ UNCHANGED <<ap_page, ap_search, ap_user, ap_userError, ap_profile,
                   ap_profileError, ap_isAdmin, ap_redirect, ap_issued, ap_count>>

AdminIdle ==
    /\ ap_pc = "idle"
    /\ ap_page = 0
    /\ ap_search = ""
    /\ ap_user = Null
    /\ ap_userError = FALSE
    /\ ap_profile = Null
    /\ ap_profileError = FALSE
    /\ ap_isAdmin = FALSE
    /\ ap_redirect = Null
    /\ ap_issued = <<>>
    /\ ap_count = 0

Listed(q) == \E i \in 1..Len(ap_issued) : ap_issued[i] = q

CallerIsAdmin ==
    /\ ~ap_userError
    /\ ~IsNull(ap_user)
    /\ ~ap_profileError
    /\ ~IsNull(ap_profile)
    /\ ~IsNull(Get(ap_profile).role)
    /\ Get(Get(ap_profile).role).name = "admin"

(* C1: the profile list query and the user-management view are reached only
   by an authenticated caller whose profile's role name is "admin"; an
   unauthenticated caller is redirected to "/", a caller whose profile lookup
   failed, is missing, has no role or another role to "/dashboard", and in
   both cases no profile list query has been issued. *)
C1_AdminGate ==
    /\ (Listed("list") \/ ap_pc \in {"list", "rendered"}) => CallerIsAdmin /\ ap_isAdmin
    /\ (ap_pc = "redirected" /\ NotAuthenticated(ap_user, ap_userError))
          => ap_redirect = Some("/") /\ ap_issued = <<>>
    /\ (ap_pc = "redirected" /\ ~NotAuthenticated(ap_user, ap_userError))
          => /\ ap_redirect = Some("/dashboard")
             /\ ~CallerIsAdmin
             /\ ~Listed("list")
    /\ (ap_pc \in {"profile", "list", "rendered"}) => ~NotAuthenticated(ap_user, ap_userError)
    /\ (ap_pc \in {"list", "rendered"}) => IsNull(ap_redirect)

\* A caller with role "user" was turned away to /dashboard without a list query
C1_Witness ==
    /\ ap_pc = "redirected"
    /\ ap_redirect = Some("/dashboard")
    /\ ~IsNull(ap_profile)
    /\ Get(ap_profile).role = Some([name |-> "user"])
    /\ ap_issued = <<"profile">>

-----------------------------------------------------------------------------
(***************************************************************************)
(* app/trees/new/page.tsx, app/trees/[id]/edit/page.tsx,                   *)
(* app/trees/[id]/page.tsx and components/tree-detail-client.tsx           *)
(***************************************************************************)

PagesFrame == UNCHANGED <<adminVars, dashVars, searchVars, formVars, proxyVars, seedVars, userVars, detailVars, pagingVars>>

TreeIds == 1..MaxTrees

\* The role name the profiles table holds for each user
ProfileRole(u) == IF u = "u2" THEN "user" ELSE "admin"

\* The caller's profile lookup: the stored profile, or an error without data
ProfileLookup(u, fault) ==
    IF fault THEN [data |-> Null, error |-> TRUE]
    ELSE [data |-> Some([role |-> Some([name |-> ProfileRole(u)])]), error |-> FALSE]

\* The image rows of a tree with n images
ImageRows(n) == [i \in 1..n |-> "img"]

\* trees.select(*, tree_images(*)).eq("id", id).eq("user_id", userId).single()
\* of the edit page's getTree: no row is an error
EditTreeQuery(trees, id, userId, fault) ==
    IF fault \/ IsNull(trees[id]) \/ Get(trees[id]).user_id # userId
      THEN [data |-> Null, error |-> TRUE]
      ELSE [data |-> trees[id], error |-> FALSE]

\* trees.select(*, tree_images(*)).eq("id", id).single() of the detail page
DetailTreeQuery(trees, id, fault) ==
    IF fault \/ IsNull(trees[id])
      THEN [data |-> Null, error |-> TRUE]
      ELSE [data |-> trees[id], error |-> FALSE]

\* getTree of the detail page, lines 382-389
IsAdminProfile(data) ==
    /\ ~IsNull(data)
    /\ ~IsNull(Get(data).role)
    /\ Get(Get(data).role).name = "admin"

\* TreeDetailClient: the only Edit and Delete controls are inside the branch
\* `tree.tree_images && tree.tree_images.length > 0` (lines 153-218), under
\* `isAdmin &&` (line 193); the other branch (lines 219-237) has none
EditDeleteControls(tree, isAdmin) ==
    IF Len(tree.tree_images) > 0 THEN isAdmin ELSE FALSE

\* A new request replaces the previous one
PagesOpen(route, viewer, id, pc) ==
    /\ pg_pc \in {"idle", "done"}
    /\ pg_route' = route
    /\ pg_viewer' = viewer
    /\ pg_id' = id
    /\ pg_pc' = pc
    /\ pg_user' = Null
    /\ pg_profile' = Null
    /\ pg_isAdmin' = FALSE
    /\ pg_fault' = FALSE
    /\ pg_controls' = FALSE

\* NewTreePage: a client component that renders TreeForm for whoever opens it
NewTreePage(viewer) ==
    /\ PagesFrame
    /\ PagesOpen("new", viewer, 0, "done")
    /\ pg_outcome' = "form"
    /\ UNCHANGED pg_trees

\* TreeForm.onSubmit from the create form: the row is inserted with
\* user_id: user.id and as many image rows as files were chosen
NewTreeSubmit(nImages, insertError) ==
    /\ PagesFrame
    /\ pg_route = "new"
    /\ pg_outcome = "form"
    /\ ~IsNull(pg_viewer)
    /\ \E id \in TreeIds :
         /\ IsNull(pg_trees[id])
         /\ \A j \in TreeIds : j < id => ~IsNull(pg_trees[j])
         /\ pg_trees' =
              IF insertError THEN pg_trees
              ELSE [pg_trees EXCEPT ![id] =
                      Some([user_id |-> Get(pg_viewer), tree_images |-> ImageRows(nImages)])]
    /\ UNCHANGED <<pg_route, pg_pc, pg_viewer, pg_id, pg_user, pg_profile,
                   pg_isAdmin, pg_fault, pg_outcome, pg_controls>>

\* EditTreePage is requested
EditTreePage(viewer, id) ==
    /\ PagesFrame
    /\ PagesOpen("edit", viewer, id, "getUser")
    /\ pg_outcome' = "none"
    /\ UNCHANGED pg_trees

\* getTree of the edit page, auth.getUser() and `if (!user) redirect("/")`
EditGetUser ==
    /\ PagesFrame
    /\ pg_route = "edit"
    /\ pg_pc = "getUser"
    /\ pg_user' = pg_viewer
    /\ IF IsNull(pg_viewer)
         THEN pg_outcome' = "redirect" /\ pg_pc' = "done"
         ELSE pg_outcome' = pg_outcome /\ pg_pc' = "tree"
    /\ UNCHANGED <<pg_trees, pg_route, pg_viewer, pg_id, pg_profile, pg_isAdmin,
                   pg_fault, pg_controls>>

\* getTree of the edit page, the tree query; EditTreePage: notFound() or the form
EditGetTree(fault) ==
    /\ PagesFrame
    /\ pg_route = "edit"
    /\ pg_pc = "tree"
    /\ pg_fault' = fault
    /\ LET res == EditTreeQuery(pg_trees, pg_id, Get(pg_user), fault)
           tree == IF res.error THEN Null ELSE res.data
       IN  pg_outcome' = IF IsNull(tree) THEN "notFound" ELSE "form"
    /\ pg_pc' = "done"
    /\ UNCHANGED <<pg_trees, pg_route, pg_viewer, pg_id, pg_user, pg_profile,
                   pg_isAdmin, pg_controls>>

\* TreeDetailPage is requested
TreeDetailPage(viewer, id) ==
    /\ PagesFrame
    /\ PagesOpen("detail", viewer, id, "getUser")
    /\ pg_outcome' = "none"
    /\ UNCHANGED pg_trees

\* getTree of the detail page: `if (userAuthError || !user) redirect("/")`
DetailGetUser(userAuthError) ==
    /\ PagesFrame
    /\ pg_route = "detail"
    /\ pg_pc = "getUser"
    /\ pg_user' = IF userAuthError THEN Null ELSE pg_viewer
    /\ IF userAuthError \/ IsNull(pg_viewer)
         THEN pg_outcome' = "redirect" /\ pg_pc' = "done"
         ELSE pg_outcome' = pg_outcome /\ pg_pc' = "profile"
    /\ UNCHANGED <<pg_trees, pg_route, pg_viewer, pg_id, pg_profile, pg_isAdmin,
                   pg_fault, pg_controls>>

\* getTree of the detail page: the profile lookup decides isAdmin; an error
\* of the lookup is only logged
DetailProfileLookup(fault) ==
    /\ PagesFrame
    /\ pg_route = "detail"
    /\ pg_pc = "profile"
    /\ LET res == ProfileLookup(Get(pg_user), fault)
       IN  /\ pg_profile' = res.data
           /\ pg_isAdmin' = IsAdminProfile(res.data)
    /\ pg_pc' = "tree"
    /\ UNCHANGED <<pg_trees, pg_route, pg_viewer, pg_id, pg_user, pg_fault,
                   pg_outcome, pg_controls>>

\* getTree of the detail page, the tree query; TreeDetailPage: notFound() or
\* TreeDetailClient rendered with tree and isAdmin
DetailGetTree(fault) ==
    /\ PagesFrame
    /\ pg_route = "detail"
    /\ pg_pc = "tree"
    /\ pg_fault' = fault
    /\ LET res == DetailTreeQuery(pg_trees, pg_id, fault)
       IN  IF res.error \/ IsNull(res.data)
             THEN pg_outcome' = "notFound" /\ pg_controls' = FALSE
             ELSE /\ pg_outcome' = "detail"
                  /\ pg_controls' = EditDeleteControls(Get(res.data), pg_isAdmin)
    /\ pg_pc' = "done"
    /\ UNCHANGED <<pg_trees, pg_route, pg_viewer, pg_id, pg_user, pg_profile,
                   pg_isAdmin>>

PagesIdle ==
    /\ pg_trees = [id \in TreeIds |-> Null]
    /\ pg_route = "none"
    /\ pg_pc = "idle"
    /\ pg_viewer = Null
    /\ pg_id = 0
    /\ pg_user = Null
    /\ pg_profile = Null
    /\ pg_isAdmin = FALSE
    /\ pg_fault = FALSE
    /\ pg_outcome = "none"
    /\ pg_controls = FALSE

Viewers == {Null} \cup {Some(u) : u \in Users}

ViewerIsAdmin == ~IsNull(pg_viewer) /\ ProfileRole(Get(pg_viewer)) = "admin"

(* C2: only a user whose role is admin reaches the create-tree form and the
   edit-tree form, and an admin can open the edit form of every existing
   tree. *)
C2_OnlyAdminsReachForms ==
    /\ (pg_outcome = "form" /\ ~IsNull(pg_viewer)) => ViewerIsAdmin
    /\ (/\ pg_route = "edit"
        /\ pg_pc = "done"
        /\ ViewerIsAdmin
        /\ ~pg_fault
        /\ ~IsNull(pg_trees[pg_id])) => pg_outcome = "form"

(* C3: on the tree detail page, for every tree, with or without images, the
   Edit and Delete controls are rendered if and only if isAdmin is true, and
   isAdmin is true exactly when the viewer's profile lookup returned role
   name "admin". *)
C3_ControlsIffAdmin ==
    (pg_route = "detail" /\ pg_outcome = "detail") =>
        /\ pg_controls <=> pg_isAdmin
        /\ pg_isAdmin <=> (pg_profile = Some([role |-> Some([name |-> "admin"])]))

-----------------------------------------------------------------------------
(***************************************************************************)
(* Text: a sequence of one-character strings                               *)
(***************************************************************************)

UpperCase ==
    <<"A", "B", "C", "D", "E", "F", "G", "H", "I", "J", "K", "L", "M",
      "N", "O", "P", "Q", "R", "S", "T", "U", "V", "W", "X", "Y", "Z">>

LowerCase ==
    <<"a", "b", "c", "d", "e", "f", "g", "h", "i", "j", "k", "l", "m",
      "n", "o", "p", "q", "r", "s", "t", "u", "v", "w", "x", "y", "z">>

\* Case folding, as ILIKE compares
Lower(c) ==
    IF \E i \in 1..Len(UpperCase) : UpperCase[i] = c
      THEN LowerCase[CHOOSE i \in 1..Len(UpperCase) : UpperCase[i] = c]
      ELSE c

\* pattern p from position i matches text t from position j, with the
\* wildcards of LIKE: % is any run of characters, _ is any one character
RECURSIVE LikeFrom(_, _, _, _)
LikeFrom(p, i, t, j) ==
    IF i > Len(p) THEN j > Len(t)
    ELSE IF p[i] = "%" THEN \E k \in j..(Len(t) + 1) : LikeFrom(p, i + 1, t, k)
    ELSE /\ j <= Len(t)
         /\ p[i] = "_" \/ Lower(p[i]) = Lower(t[j])
         /\ LikeFrom(p, i + 1, t, j + 1)

\* column ILIKE pattern
ILike(t, p) == LikeFrom(p, 1, t, 1)

\* t contains q as a case-insensitive substring
ContainsIgnoringCase(t, q) ==
    \E k \in 0..(Len(t) - Len(q)) :
        \A i \in 1..Len(q) : Lower(t[k + i]) = Lower(q[i])

-----------------------------------------------------------------------------
(***************************************************************************)
(* app/dashboard/page.tsx: fetchTrees                                      *)
(***************************************************************************)

PAGE_SIZE == 12

Min(a, b) == IF a < b THEN a ELSE b

\* Math.ceil(a / b) for a >= 0, b > 0
Ceil(a, b) == (a + b - 1) \div b

\* .order("created_at", { ascending: false }): newest first
RECURSIVE OrderNewestFirst(_)
OrderNewestFirst(rows) ==
    IF rows = <<>> THEN <<>>
    ELSE LET n == CHOOSE i \in 1..Len(rows) :
                    \A j \in 1..Len(rows) :
                        \/ rows[j].created_at < rows[i].created_at
                        \/ (rows[j].created_at = rows[i].created_at /\ i <= j)
             rest == [k \in 1..(Len(rows) - 1) |-> IF k < n THEN rows[k] ELSE rows[k + 1]]
         IN  <<rows[n]>> \o OrderNewestFirst(rest)

\* query.or(`common_name.ilike.%${searchQuery}%,scientific_name.ilike.%${searchQuery}%`)
\* (lines 46-50): the query text is put into the pattern as it is
SearchFilter(row, searchQuery) ==
    LET pattern == <<"%">> \o searchQuery \o <<"%">>
    IN  \/ ILike(row.common_name, pattern)
        \/ ILike(row.scientific_name, pattern)

\* The rows the query selects, in order (lines 35-50)
SelectedRows(table, searchQuery) ==
    LET ordered == OrderNewestFirst(table)
    IN  IF searchQuery # <<>>
          THEN SelectSeq(ordered, LAMBDA row : SearchFilter(row, searchQuery))
          ELSE ordered

\* const from = page * pageSize (fetchTrees line 32, fetchUsers line 137)
RangeFrom(page, pageSize) == page * pageSize

\* a range one row too long
RangeToNextFrom(page, pageSize) == RangeFrom(page, pageSize) + pageSize

\* const to = from + pageSize - 1 (fetchTrees line 33, fetchUsers line 138)
RangeTo(page, pageSize) == RangeFrom(page, pageSize) + pageSize - 1

\* query.range(from, to) with { count: "exact" } (lines 32-33, 52-59): the
\* page [from, to] of the selected rows and the number of selected rows;
\* { trees: [], count: 0 } on an error.  The backend answers a range that
\* starts past the last selected row with an error (range not satisfiable)
RangeOf(rows, page, pageSize, error) ==
    LET from == RangeFrom(page, pageSize)
        to == RangeTo(page, pageSize)
    IN  IF error \/ (from > 0 /\ from >= Len(rows))
          THEN [trees |-> <<>>, count |-> 0]
        ELSE [trees |-> SubSeq(rows, from + 1, Min(to + 1, Len(rows))),
              count |-> Len(rows)]

\* fetchTrees (lines 27-60)
fetchTrees(table, page, pageSize, searchQuery, error) ==
    RangeOf(SelectedRows(table, searchQuery), page, pageSize, error)

-----------------------------------------------------------------------------
(***************************************************************************)
(* scripts/seed-data.js                                                    *)
(***************************************************************************)

NUM_TREES_TO_GENERATE == 15

\* baseTreeNames (lines 55-71)
baseTreeNames ==
    <<
    [common |-> <<"O", "a", "k">>,
     scientific |-> <<"Q", "u", "e", "r", "c", "u", "s", " ", "r", "o", "b", "u", "r">>],
    [common |-> <<"P", "i", "n", "e">>,
     scientific |-> <<"P", "i", "n", "u", "s", " ", "s", "y", "l", "v", "e", "s", "t", "r", "i", "s">>],
    [common |-> <<"M", "a", "p", "l", "e">>,
     scientific |-> <<"A", "c", "e", "r", " ", "p", "l", "a", "t", "a", "n", "o", "i", "d", "e", "s">>],
    [common |-> <<"B", "i", "r", "c", "h">>,
     scientific |-> <<"B", "e", "t", "u", "l", "a", " ", "p", "e", "n", "d", "u", "l", "a">>],
    [common |-> <<"W", "i", "l", "l", "o", "w">>,
     scientific |-> <<"S", "a", "l", "i", "x", " ", "b", "a", "b", "y", "l", "o", "n", "i", "c", "a">>],
    [common |-> <<"A", "s", "h">>,
     scientific |-> <<"F", "r", "a", "x", "i", "n", "u", "s", " ", "e", "x", "c", "e", "l", "s", "i", "o", "r">>],
    [common |-> <<"E", "l", "m">>,
     scientific |-> <<"U", "l", "m", "u", "s", " ", "a", "m", "e", "r", "i", "c", "a", "n", "a">>],
    [common |-> <<"S", "p", "r", "u", "c", "e">>,
     scientific |-> <<"P", "i", "c", "e", "a", " ", "a", "b", "i", "e", "s">>],
    [common |-> <<"F", "i", "r">>,
     scientific |-> <<"A", "b", "i", "e", "s", " ", "a", "l", "b", "a">>],
    [common |-> <<"C", "y", "p", "r", "e", "s", "s">>,
     scientific |-> <<"C", "u", "p", "r", "e", "s", "s", "u", "s", " ", "s", "e", "m", "p", "e", "r", "v", "i", "r", "e", "n", "s">>],
    [common |-> <<"B", "a", "n", "y", "a", "n">>,
     scientific |-> <<"F", "i", "c", "u", "s", " ", "b", "e", "n", "g", "h", "a", "l", "e", "n", "s", "i", "s">>],
    [common |-> <<"N", "e", "e", "m">>,
     scientific |-> <<"A", "z", "a", "d", "i", "r", "a", "c", "h", "t", "a", " ", "i", "n", "d", "i", "c", "a">>],
    [common |-> <<"M", "a", "n", "g", "o">>,
     scientific |-> <<"M", "a", "n", "g", "i", "f", "e", "r", "a", " ", "i", "n", "d", "i", "c", "a">>],
    [common |-> <<"T", "e", "a", "k">>,
     scientific |-> <<"T", "e", "c", "t", "o", "n", "a", " ", "g", "r", "a", "n", "d", "i", "s">>],
    [common |-> <<"E", "u", "c", "a", "l", "y", "p", "t", "u", "s">>,
     scientific |-> <<"E", "u", "c", "a", "l", "y", "p", "t", "u", "s", " ", "g", "l", "o", "b", "u", "l", "u", "s">>]
    >>

\* locations (lines 73-89)
locations ==
    <<
    <<"C", "e", "n", "t", "r", "a", "l", " ", "P", "a", "r", "k", ",", " ", "M", "u", "m", "b", "a", "i">>,
    <<"B", "a", "n", "d", "r", "a", " ", "K", "u", "r", "l", "a", " ", "C", "o", "m", "p", "l", "e", "x", ",", " ", "M", "u", "m", "b", "a", "i">>,
    <<"P", "o", "w", "a", "i", " ", "L", "a", "k", "e", " ", "A", "r", "e", "a", ",", " ", "M", "u", "m", "b", "a", "i">>,
    <<"W", "o", "r", "l", "i", " ", "S", "e", "a", "f", "a", "c", "e", ",", " ", "M", "u", "m", "b", "a", "i">>,
    <<"J", "u", "h", "u", " ", "B", "e", "a", "c", "h", " ", "v", "i", "c", "i", "n", "i", "t", "y", ",", " ", "M", "u", "m", "b", "a", "i">>,
    <<"A", "n", "d", "h", "e", "r", "i", " ", "S", "p", "o", "r", "t", "s", " ", "C", "o", "m", "p", "l", "e", "x", ",", " ", "M", "u", "m", "b", "a", "i">>,
    <<"M", "a", "l", "a", "d", " ", "I", "n", "d", "u", "s", "t", "r", "i", "a", "l", " ", "A", "r", "e", "a", ",", " ", "M", "u", "m", "b", "a", "i">>,
    <<"T", "h", "a", "n", "e", " ", "C", "r", "e", "e", "k", ",", " ", "M", "u", "m", "b", "a", "i">>,
    <<"V", "e", "r", "s", "o", "v", "a", " ", "B", "e", "a", "c", "h", " ", "P", "a", "r", "k", ",", " ", "M", "u", "m", "b", "a", "i">>,
    <<"A", "a", "r", "e", "y", " ", "C", "o", "l", "o", "n", "y", ",", " ", "M", "u", "m", "b", "a", "i">>,
    <<"S", "a", "n", "j", "a", "y", " ", "G", "a", "n", "d", "h", "i", " ", "N", "a", "t", "i", "o", "n", "a", "l", " ", "P", "a", "r", "k", ",", " ", "M", "u", "m", "b", "a", "i">>,
    <<"M", "a", "r", "i", "n", "e", " ", "D", "r", "i", "v", "e", ",", " ", "M", "u", "m", "b", "a", "i">>,
    <<"S", "h", "i", "v", "a", "j", "i", " ", "P", "a", "r", "k", ",", " ", "M", "u", "m", "b", "a", "i">>,
    <<"M", "a", "t", "u", "n", "g", "a", " ", "S", "t", "a", "t", "i", "o", "n", " ", "R", "o", "a", "d", ",", " ", "M", "u", "m", "b", "a", "i">>,
    <<"G", "h", "a", "t", "k", "o", "p", "a", "r", " ", "H", "i", "l", "l", "s", ",", " ", "M", "u", "m", "b", "a", "i">>
    >>

\* landmarks (lines 91-107)
landmarks ==
    <<
    <<"N", "e", "a", "r", " ", "t", "h", "e", " ", "m", "a", "i", "n", " ", "f", "o", "u", "n", "t", "a", "i", "n">>,
    <<"B", "e", "h", "i", "n", "d", " ", "t", "h", "e", " ", "a", "d", "m", "i", "n", "i", "s", "t", "r", "a", "t", "i", "v", "e", " ", "b", "u", "i", "l", "d", "i", "n", "g">>,
    <<"N", "e", "x", "t", " ", "t", "o", " ", "t", "h", "e", " ", "p", "a", "r", "k", "i", "n", "g", " ", "a", "r", "e", "a">>,
    <<"C", "l", "o", "s", "e", " ", "t", "o", " ", "t", "h", "e", " ", "c", "h", "i", "l", "d", "r", "e", "n", "'", "s", " ", "p", "l", "a", "y", "g", "r", "o", "u", "n", "d">>,
    <<"A", "d", "j", "a", "c", "e", "n", "t", " ", "t", "o", " ", "t", "h", "e", " ", "s", "e", "c", "u", "r", "i", "t", "y", " ", "g", "a", "t", "e">>,
    <<"B", "y", " ", "t", "h", "e", " ", "m", "a", "i", "n", " ", "e", "n", "t", "r", "a", "n", "c", "e">>,
    <<"N", "e", "a", "r", " ", "t", "h", "e", " ", "c", "a", "f", "e", "t", "e", "r", "i", "a">>,
    <<"N", "e", "x", "t", " ", "t", "o", " ", "t", "h", "e", " ", "j", "o", "g", "g", "i", "n", "g", " ", "t", "r", "a", "c", "k">>,
    <<"C", "l", "o", "s", "e", " ", "t", "o", " ", "t", "h", "e", " ", "b", "u", "s", " ", "s", "t", "o", "p">>,
    <<"B", "e", "h", "i", "n", "d", " ", "t", "h", "e", " ", "v", "i", "s", "i", "t", "o", "r", " ", "c", "e", "n", "t", "e", "r">>,
    <<"N", "e", "a", "r", " ", "t", "h", "e", " ", "m", "e", "d", "i", "t", "a", "t", "i", "o", "n", " ", "g", "a", "r", "d", "e", "n">>,
    <<"B", "y", " ", "t", "h", "e", " ", "a", "r", "t", "i", "f", "i", "c", "i", "a", "l", " ", "l", "a", "k", "e">>,
    <<"N", "e", "x", "t", " ", "t", "o", " ", "t", "h", "e", " ", "s", "p", "o", "r", "t", "s", " ", "f", "i", "e", "l", "d">>,
    <<"C", "l", "o", "s", "e", " ", "t", "o", " ", "t", "h", "e", " ", "m", "e", "m", "o", "r", "i", "a", "l", " ", "s", "t", "a", "t", "u", "e">>,
    <<"N", "e", "a", "r", " ", "t", "h", "e", " ", "b", "o", "t", "a", "n", "i", "c", "a", "l", " ", "g", "a", "r", "d", "e", "n">>
    >>

\* The decimal digits of n >= 0, as a template literal prints a number
RECURSIVE NumberText(_)
NumberText(n) ==
    LET digit == <<"0", "1", "2", "3", "4", "5", "6", "7", "8", "9">>[(n % 10) + 1]
    IN  IF n < 10 THEN <<digit>> ELSE NumberText(n \div 10) \o <<digit>>

\* generateDummyTree (lines 141-201): the text columns and the premium flag
generateDummyTreeFromFirst(index) ==
    LET baseName == baseTreeNames[(index % Len(baseTreeNames)) + 1]
    IN  [common_name |-> baseName.common \o <<" ", "T", "r", "e", "e", " ", "#">>
                            \o NumberText(index + 1),
         scientific_name |-> baseName.scientific,
         location |-> locations[(index % Len(locations)) + 1],
         landmark |-> landmarks[(index % Len(landmarks)) + 1],
         is_premium |-> index % 3 = 0]

generateDummyTree(index) ==
    LET baseName == baseTreeNames[(index % Len(baseTreeNames)) + 1]
    IN  [common_name |-> baseName.common \o <<" ", "T", "r", "e", "e", " ", "#">>
                            \o NumberText(index + 1),
         scientific_name |-> baseName.scientific,
         location |-> locations[(index % Len(locations)) + 1],
         landmark |-> landmarks[(index % Len(landmarks)) + 1],
         is_premium |-> (index + 1) % 3 = 0]

\* The rows of the trees table after seedData (lines 217-248) ran on an empty
\* table, the inserts of the trees with an index in `failed` having failed
RECURSIVE SeededRows(_, _, _)
SeededRows(index, failed, rows) ==
    IF index >= NUM_TREES_TO_GENERATE THEN rows
    ELSE IF index \in failed THEN SeededRows(index + 1, failed, rows)
    ELSE LET tree == generateDummyTree(index)
         IN  SeededRows(index + 1, failed,
                        Append(rows,
                               [id |-> Len(rows) + 1, created_at |-> Len(rows) + 1,
                                common_name |-> tree.common_name,
                                scientific_name |-> tree.scientific_name,
                                location |-> tree.location,
                                landmark |-> tree.landmark]))

\* The search examples of SEED_SCRIPT_README.md (lines 113-119)
ReadmeNameQueries ==
    {<<"O", "a", "k">>,
     <<"P", "i", "n", "e">>,
     <<"M", "a", "p", "l", "e">>}

ReadmeLocationQueries ==
    {<<"C", "e", "n", "t", "r", "a", "l", " ", "P", "a", "r", "k">>,
     <<"B", "a", "n", "d", "r", "a">>,
     <<"P", "o", "w", "a", "i">>}

ReadmeLandmarkQueries ==
    {<<"f", "o", "u", "n", "t", "a", "i", "n">>,
     <<"p", "l", "a", "y", "g", "r", "o", "u", "n", "d">>,
     <<"e", "n", "t", "r", "a", "n", "c", "e">>}

-----------------------------------------------------------------------------
(***************************************************************************)
(* fetchTrees as a function of the table, the page and the query           *)
(***************************************************************************)

SearchFrame == UNCHANGED <<adminVars, pageVars, dashVars, formVars, proxyVars, seedVars, userVars, detailVars, pagingVars>>

\* Rows of a small trees table
SmallRows ==
    [created_at : 1..2,
     common_name : {<<"a", "b">>, <<"B">>},
     scientific_name : {<<"c">>, <<"A">>},
     location : {<<"e">>},
     landmark : {<<"f">>}]

\* The tables of at most MaxRows rows; the id of a row is its position
SmallTables ==
    {[i \in 1..Len(t) |-> [id |-> i] @@ t[i]] :
        t \in UNION {[1..m -> SmallRows] : m \in 0..MaxRows}}

\* What is typed into the search box
SmallQueries ==
    {<<>>, <<"a">>, <<"b">>, <<"A">>, <<"e">>, <<"_">>, <<"%">>, <<"b", "a">>}

ReadmeQueries == ReadmeNameQueries \cup ReadmeLocationQueries \cup ReadmeLandmarkQueries

\* Trees whose insert the seed script may see fail
SeedFailures == {{}, {0}, {NUM_TREES_TO_GENERATE - 1}}

\* The tables the seed script can leave behind
SeededTables == [failed \in SeedFailures |-> SeededRows(0, failed, <<>>)]

\* SelectedRows, tabulated once for every table and query that occurs
SearchSelected ==
    [table \in SmallTables \cup {SeededTables[f] : f \in SeedFailures},
     searchQuery \in SmallQueries \cup ReadmeQueries |->
        SelectedRows(table, searchQuery)]

\* node scripts/seed-data.js on an empty table
SearchSeed(failed) ==
    /\ SearchFrame
    /\ s_table = <<>>
    /\ ~s_seeded
    /\ s_table' = SeededTables[failed]
    /\ s_seeded' = TRUE
    /\ s_result' = Null
    /\ UNCHANGED <<s_query, s_page, s_pageSize, s_error>>

\* fetchTrees(page, pageSize, searchQuery) (dashboard, lines 27-60)
SearchFetch(page, pageSize, searchQuery, error) ==
    /\ SearchFrame
    /\ searchQuery \in ReadmeQueries => s_seeded
    /\ s_query' = searchQuery
    /\ s_page' = page
    /\ s_pageSize' = pageSize
    /\ s_error' = error
    /\ LET res == RangeOf(SearchSelected[s_table, searchQuery], page, pageSize, error)
       IN  s_result' = Some([trees |-> [k \in 1..Len(res.trees) |-> res.trees[k].id],
                             count |-> res.count])
    /\ UNCHANGED <<s_table, s_seeded>>

SearchIdle ==
    /\ s_table = <<>>
    /\ s_seeded = FALSE
    /\ s_query = <<>>
    /\ s_page = 0
    /\ s_pageSize = PAGE_SIZE
    /\ s_error = FALSE
    /\ s_result = Null

\* The call did not fail and asked for a page that exists
SearchAnswered ==
    /\ ~IsNull(s_result)
    /\ ~s_error
    /\ (s_page = 0 \/ s_page * s_pageSize < Get(s_result).count)

\* The rows whose common_name or scientific_name contains q
NameMatches(q) ==
    {i \in 1..Len(s_table) :
        \/ ContainsIgnoringCase(s_table[i].common_name, q)
        \/ ContainsIgnoringCase(s_table[i].scientific_name, q)}

\* The rows whose name, location or landmark contains q
TextMatches(q) ==
    {i \in 1..Len(s_table) :
        \/ ContainsIgnoringCase(s_table[i].common_name, q)
        \/ ContainsIgnoringCase(s_table[i].scientific_name, q)
        \/ ContainsIgnoringCase(s_table[i].location, q)
        \/ ContainsIgnoringCase(s_table[i].landmark, q)}

(* C6: fetchTrees applies the search filter only when the query is non-empty,
   and then selects exactly the trees whose common_name or scientific_name
   contains the query as a case-insensitive substring; with an empty query
   every tree is selected.  The results are ordered newest first and the
   returned count is the number of matching trees, not the number on the
   page. *)
C6_SearchIsSubstringFilter ==
    SearchAnswered =>
        LET res == Get(s_result)
            matching == IF s_query = <<>> THEN 1..Len(s_table) ELSE NameMatches(s_query)
        IN  /\ res.count = Cardinality(matching)
            /\ \A k \in 1..Len(res.trees) : res.trees[k] \in matching
            /\ \A k \in 1..(Len(res.trees) - 1) :
                  s_table[res.trees[k]].created_at >= s_table[res.trees[k + 1]].created_at
            /\ Len(res.trees) = Min(s_pageSize, res.count - s_page * s_pageSize)

(* C7: after seeding, the dashboard search finds trees by their location text
   ("Central Park", "Bandra", "Powai") and by their landmark text ("fountain",
   "playground", "entrance"), as well as by tree name. *)
C7_SearchFindsSeededLocations ==
    (s_seeded /\ SearchAnswered /\ s_query \in ReadmeQueries /\ s_page = 0
        /\ s_pageSize = PAGE_SIZE) =>
        LET res == Get(s_result)
        IN  /\ res.count = Cardinality(TextMatches(s_query))
            /\ \A i \in TextMatches(s_query) : \E k \in 1..Len(res.trees) : res.trees[k] = i

-----------------------------------------------------------------------------
(***************************************************************************)
(* app/dashboard/page.tsx: DashboardPage                                   *)
(***************************************************************************)

DashFrame == UNCHANGED <<adminVars, pageVars, searchVars, formVars, proxyVars, seedVars, userVars, detailVars, pagingVars>>

\* The trees table behind the dashboard: NumTrees rows, the five oldest
\* named "a", the others "b"
DashTable ==
    [i \in 1..NumTrees |->
        [id |-> i, created_at |-> i,
         common_name |-> IF i <= 5 THEN <<"a">> ELSE <<"b">>,
         scientific_name |-> <<"c">>,
         location |-> <<"d">>, landmark |-> <<"e">>]]

\* What the search box can hold
DashQueries == {<<>>, <<"a">>, <<"b">>}

\* What the backend selects from DashTable for each text of the search box
DashSelected == [q \in DashQueries |-> SelectedRows(DashTable, q)]

\* const totalPages = Math.ceil(totalTrees / PAGE_SIZE) (line 140)
TotalPages(totalTrees) == Ceil(totalTrees, PAGE_SIZE)

\* The component returns null without a user (lines 169-182)
DashRendered == dash_route = "/dashboard" /\ ~IsNull(dash_user)

\* `isAdmin &&` around Admin Panel and Add New Tree (lines 205-223)
AdminControlsShown == DashRendered /\ dash_isAdmin

\* `trees.length === 0 && !loading` (line 291): the empty state replaces the
\* grid and the pagination
EmptyStateShown == DashRendered /\ dash_trees = <<>> /\ ~dash_loading

\* `totalPages > 1 &&` (line 335)
PaginationShown ==
    DashRendered /\ ~EmptyStateShown /\ TotalPages(dash_totalTrees) > 1

\* the last window one page too far
PageNumPastEnd(i, currentPage, totalPages) ==
    IF totalPages > 5
      THEN IF currentPage < 3 THEN i
           ELSE IF currentPage > totalPages - 4 THEN totalPages - 4 + i
           ELSE currentPage - 2 + i
      ELSE i

\* The page index of the i-th page-number button (lines 369-379), i from 0
PageNum(i, currentPage, totalPages) ==
    IF totalPages > 5
      THEN IF currentPage < 3 THEN i
           ELSE IF currentPage > totalPages - 4 THEN totalPages - 5 + i
           ELSE currentPage - 2 + i
      ELSE i

\* The effect (lines 84-138) runs again when currentPage or searchQuery
\* changed: it subscribes anew, and the subscription calls the callback with
\* the session; with a user, the callback sets the user and awaits the
\* profile lookup, holding the page and query of its subscription
Resubscribed(page, query) ==
    IF IsNull(dash_session)
      THEN /\ dash_user' = Null
           /\ dash_trees' = <<>>
           /\ dash_isAdmin' = FALSE
           /\ dash_loading' = FALSE
           /\ dash_route' = "/"
           /\ UNCHANGED <<dash_handlers, dash_totalTrees>>
      ELSE /\ dash_user' = dash_session
           /\ dash_handlers' = Append(dash_handlers,
                                      [pc |-> "lookup", page |-> page, query |-> query])
           /\ UNCHANGED <<dash_trees, dash_isAdmin, dash_loading, dash_route,
                          dash_totalTrees>>

\* supabase.auth.onAuthStateChange delivers an event (initial session, sign
\* in, token refresh, sign out) to the callback (lines 87-133)
DashAuthEvent(signedOut) ==
    /\ DashFrame
    /\ dash_route = "/dashboard"
    /\ Len(dash_handlers) < MaxInFlight
    /\ dash_session' = IF signedOut THEN Null ELSE dash_session
    /\ IF signedOut \/ IsNull(dash_session)
         THEN /\ dash_user' = Null
              /\ dash_trees' = <<>>
              /\ dash_isAdmin' = FALSE
              /\ dash_loading' = FALSE
              /\ dash_route' = "/"
              /\ UNCHANGED dash_handlers
         ELSE /\ dash_user' = dash_session
              /\ dash_handlers' =
                   Append(dash_handlers,
                          [pc |-> "lookup", page |-> dash_currentPage,
                           query |-> dash_searchQuery])
              /\ UNCHANGED <<dash_trees, dash_isAdmin, dash_loading, dash_route>>
    /\ UNCHANGED <<dash_currentPage, dash_totalTrees, dash_searchQuery, dash_lastLookup>>

\* The sequence without its i-th element
Without(seq, i) == [k \in 1..(Len(seq) - 1) |-> IF k < i THEN seq[k] ELSE seq[k + 1]]

\* Lines 110-123: an error of the lookup is logged and isAdmin keeps its
\* value; otherwise isAdmin is whether the role name is "admin"
IsAdminAfterLookup(isAdmin, data, error) ==
    IF error THEN isAdmin
    ELSE IsAdminProfile(data)

LookupOutcome(res) ==
    IF res.error THEN "error"
    ELSE IF IsAdminProfile(res.data) THEN "admin" ELSE "other"

\* The profile lookup of run i answers (lines 91-123); the callback goes on
\* to fetchData(currentPage, searchQuery), which sets loading (lines 72-73)
DashLookupDone(i, res) ==
    /\ DashFrame
    /\ dash_route = "/dashboard"
    /\ i \in 1..Len(dash_handlers)
    /\ dash_handlers[i].pc = "lookup"
    /\ dash_isAdmin' = IsAdminAfterLookup(dash_isAdmin, res.data, res.error)
    /\ dash_lastLookup' = LookupOutcome(res)
    /\ dash_loading' = TRUE
    /\ dash_handlers' = [dash_handlers EXCEPT ![i].pc = "fetch"]
    /\ UNCHANGED <<dash_user, dash_trees, dash_currentPage, dash_totalTrees,
                   dash_searchQuery, dash_session, dash_route>>

\* fetchTrees of run i answers (lines 74-81)
DashFetchDone(i, error) ==
    /\ DashFrame
    /\ dash_route = "/dashboard"
    /\ i \in 1..Len(dash_handlers)
    /\ dash_handlers[i].pc = "fetch"
    /\ LET res == RangeOf(DashSelected[dash_handlers[i].query],
                          dash_handlers[i].page, PAGE_SIZE, error)
       IN  /\ dash_trees' = [k \in 1..Len(res.trees) |-> res.trees[k].id]
           /\ dash_totalTrees' = res.count
    /\ dash_loading' = FALSE
    /\ dash_handlers' = Without(dash_handlers, i)
    /\ UNCHANGED <<dash_user, dash_isAdmin, dash_currentPage, dash_searchQuery,
                   dash_session, dash_route, dash_lastLookup>>

\* goToPreviousPage (lines 142-146); the button is disabled at page 0 and
\* while loading (line 341)
GoToPreviousPage ==
    /\ DashFrame
    /\ PaginationShown
    /\ ~(dash_currentPage = 0 \/ dash_loading)
    /\ Len(dash_handlers) < MaxInFlight
    /\ IF dash_currentPage > 0
         THEN /\ dash_currentPage' = dash_currentPage - 1
              /\ Resubscribed(dash_currentPage - 1, dash_searchQuery)
         ELSE UNCHANGED <<dash_currentPage, dash_user, dash_trees, dash_isAdmin,
                          dash_loading, dash_route, dash_handlers, dash_totalTrees>>
    /\ UNCHANGED <<dash_searchQuery, dash_session, dash_lastLookup>>

\* goToNextPage (lines 148-152); the button is disabled at the last page and
\* while loading (line 357)
GoToNextPage ==
    /\ DashFrame
    /\ PaginationShown
    /\ ~(dash_currentPage = TotalPages(dash_totalTrees) - 1 \/ dash_loading)
    /\ Len(dash_handlers) < MaxInFlight
    /\ IF dash_currentPage < TotalPages(dash_totalTrees) - 1
         THEN /\ dash_currentPage' = dash_currentPage + 1
              /\ Resubscribed(dash_currentPage + 1, dash_searchQuery)
         ELSE UNCHANGED <<dash_currentPage, dash_user, dash_trees, dash_isAdmin,
                          dash_loading, dash_route, dash_handlers, dash_totalTrees>>
    /\ UNCHANGED <<dash_searchQuery, dash_session, dash_lastLookup>>

\* The i-th page-number button (lines 369-396): setCurrentPage(pageNum); the
\* buttons are not disabled while loading
PageNumberClick(i) ==
    /\ DashFrame
    /\ PaginationShown
    /\ i \in 0..(Min(TotalPages(dash_totalTrees), 5) - 1)
    /\ Len(dash_handlers) < MaxInFlight
    /\ LET pageNum == PageNum(i, dash_currentPage, TotalPages(dash_totalTrees))
       IN  /\ pageNum # dash_currentPage
           /\ dash_currentPage' = pageNum
           /\ Resubscribed(pageNum, dash_searchQuery)
    /\ UNCHANGED <<dash_searchQuery, dash_session, dash_lastLookup>>

\* handleSearchChange (lines 154-157)
HandleSearchChange(value) ==
    /\ DashFrame
    /\ DashRendered
    /\ value # dash_searchQuery
    /\ Len(dash_handlers) < MaxInFlight
    /\ dash_searchQuery' = value
    /\ dash_currentPage' = 0
    /\ Resubscribed(0, value)
    /\ UNCHANGED <<dash_session, dash_lastLookup>>

\* The state after construction (lines 64-70), on the /dashboard route
DashConstructedAt(route) ==
    /\ dash_user = Null
    /\ dash_trees = <<>>
    /\ dash_loading = TRUE
    /\ dash_isAdmin = FALSE
    /\ dash_currentPage = 0
    /\ dash_totalTrees = 0
    /\ dash_searchQuery = <<>>
    /\ dash_handlers = <<>>
    /\ dash_route = route
    /\ dash_lastLookup = "none"

DashConstructed == DashConstructedAt("/dashboard")

DashIdle == DashConstructed /\ dash_session = Null

(* C4: on the dashboard, after any sequence of auth-state events and profile
   lookups, the admin controls (Admin Panel, Add New Tree) are shown only if
   the most recent profile lookup for the signed-in user succeeded and
   returned role name "admin"; a failed or non-admin lookup never leaves
   isAdmin true. *)
C4_AdminControlsFollowLastLookup ==
    /\ AdminControlsShown => dash_lastLookup = "admin"
    /\ (dash_route = "/dashboard" /\ dash_lastLookup \in {"error", "other"}) => ~dash_isAdmin

(* C5: on the dashboard, in every reachable state currentPage >= 0 and,
   whenever no fetch is in flight and totalPages > 0, currentPage <=
   totalPages - 1, where totalPages = ceil(totalTrees / 12). *)
C5_CurrentPageInRange ==
    /\ dash_currentPage >= 0
    /\ (/\ DashRendered
        /\ dash_handlers = <<>>
        /\ TotalPages(dash_totalTrees) > 0) => dash_currentPage <= TotalPages(dash_totalTrees) - 1

\* the page renders nothing for a failed query: fetchTrees only logs the error
\* (lines 54-57) and the component holds no error state (lines 64-70)
DashErrorShown == FALSE

(* C14: when the remote tree query of the dashboard fails, the failure is
   surfaced to the user as an error message, and the dashboard does not
   present the failed query as an empty catalog ('No trees found', total 0). *)
C14_FetchFailureSurfaced ==
    [][(\E i \in 1..MaxInFlight : DashFetchDone(i, TRUE)) =>
          /\ DashErrorShown
          /\ ~(EmptyStateShown' /\ dash_totalTrees' = 0)]_vars

\* What the dashboard displays: the ids of `trees`, and totalTrees
DashDisplayed == [trees |-> dash_trees, count |-> dash_totalTrees]

\* What fetchData(page, query) leaves on display once its response is in
DashFetchResults(page, query) ==
    {[trees |-> [k \in 1..Len(res.trees) |-> res.trees[k].id], count |-> res.count] :
        res \in {RangeOf(DashSelected[query], page, PAGE_SIZE, error) : error \in BOOLEAN}}

(* C16: on the dashboard, once every in-flight tree fetch has completed, the
   displayed trees and totalTrees are the result of the fetch issued for the
   current (currentPage, searchQuery), even when several fetches overlap and
   their responses arrive in another order than the requests were issued. *)
C16_DisplayedIsCurrentFetch ==
    (DashRendered /\ dash_handlers = <<>> /\ ~dash_loading) =>
        DashDisplayed \in DashFetchResults(dash_currentPage, dash_searchQuery)

-----------------------------------------------------------------------------
(***************************************************************************)
(* Strings and JSON values, as components/tree-form.tsx and                 *)
(* components/tree-detail-client.tsx compute with them                      *)
(***************************************************************************)

\* String.prototype.split(separator), the separator being one character
RECURSIVE split(_, _)
split(s, separator) ==
    IF \A i \in 1..Len(s) : s[i] # separator THEN <<s>>
    ELSE LET i == CHOOSE k \in 1..Len(s) :
                      s[k] = separator /\ \A j \in 1..(k - 1) : s[j] # separator
         IN  <<SubSeq(s, 1, i - 1)>> \o split(SubSeq(s, i + 1, Len(s)), separator)

\* Array.prototype.indexOf: the 0-based position of the first match, or -1
indexOf(segments, x) ==
    IF \E i \in 1..Len(segments) : segments[i] = x
      THEN (CHOOSE i \in 1..Len(segments) :
                segments[i] = x /\ \A j \in 1..(i - 1) : segments[j] # x) - 1
      ELSE -1

\* Array.prototype.slice(start), for start >= 0
slice(segments, start) == SubSeq(segments, start + 1, Len(segments))

\* Array.prototype.join(separator)
RECURSIVE join(_, _)
join(segments, separator) ==
    IF Len(segments) = 0 THEN <<>>
    ELSE IF Len(segments) = 1 THEN segments[1]
    ELSE segments[1] \o <<separator>> \o join(Tail(segments), separator)

\* encodeURI on one character: a space and a percent sign are escaped, the
\* letters, digits and URI punctuation that occur in the paths are kept
encodeURIChar(c) ==
    CASE c = " " -> <<"%", "2", "0">>
      [] c = "%" -> <<"%", "2", "5">>
      [] OTHER -> <<c>>

RECURSIVE encodeURI(_)
encodeURI(s) ==
    IF s = <<>> THEN <<>> ELSE encodeURIChar(Head(s)) \o encodeURI(Tail(s))

\* JSON values: a number, an array of values, the empty object, null
JSONNumber(n) == [kind |-> "number", num |-> n, items |-> <<>>]
JSONArray(items) == [kind |-> "array", num |-> 0, items |-> items]
JSONObject == [kind |-> "object", num |-> 0, items |-> <<>>]
JSONNull == [kind |-> "null", num |-> 0, items |-> <<>>]

Digits == <<"0", "1", "2", "3", "4", "5", "6", "7", "8", "9">>
IsDigit(c) == \E d \in 1..Len(Digits) : Digits[d] = c
DigitValue(c) == (CHOOSE d \in 1..Len(Digits) : Digits[d] = c) - 1
JSONWhitespace == {" ", "\n", "\t", "\r"}

\* The first position at or after i that does not hold whitespace
SkipWhitespace(s, i) ==
    CHOOSE j \in i..(Len(s) + 1) :
        /\ \A k \in i..(j - 1) : s[k] \in JSONWhitespace
        /\ j <= Len(s) => s[j] \notin JSONWhitespace

\* The first position at or after i that does not hold a digit
SkipDigits(s, i) ==
    CHOOSE j \in i..(Len(s) + 1) :
        /\ \A k \in i..(j - 1) : IsDigit(s[k])
        /\ j <= Len(s) => ~IsDigit(s[j])

RECURSIVE DigitsValue(_)
DigitsValue(s) ==
    IF s = <<>> THEN 0
    ELSE 10 * DigitsValue(SubSeq(s, 1, Len(s) - 1)) + DigitValue(s[Len(s)])

ParseFailed == [ok |-> FALSE, val |-> JSONNull, next |-> 0]

\* JSON.parse, for texts made of whitespace, digits, brackets, commas, {} and
\* null: the value starting at position i and the position after it
RECURSIVE ParseValue(_, _)
RECURSIVE ParseItems(_, _, _)
ParseValue(s, i) ==
    LET j == SkipWhitespace(s, i)
    IN  IF j > Len(s) THEN ParseFailed
        ELSE IF IsDigit(s[j]) THEN
            LET e == SkipDigits(s, j)
            IN  IF s[j] = "0" /\ e > j + 1 THEN ParseFailed
                ELSE [ok |-> TRUE, val |-> JSONNumber(DigitsValue(SubSeq(s, j, e - 1))),
                      next |-> e]
        ELSE IF s[j] = "{" THEN
            LET k == SkipWhitespace(s, j + 1)
            IN  IF k <= Len(s) /\ s[k] = "}"
                  THEN [ok |-> TRUE, val |-> JSONObject, next |-> k + 1]
                  ELSE ParseFailed
        ELSE IF s[j] = "[" THEN
            LET k == SkipWhitespace(s, j + 1)
            IN  IF k <= Len(s) /\ s[k] = "]"
                  THEN [ok |-> TRUE, val |-> JSONArray(<<>>), next |-> k + 1]
                  ELSE ParseItems(s, j + 1, <<>>)
        ELSE IF j + 3 <= Len(s) /\ SubSeq(s, j, j + 3) = <<"n", "u", "l", "l">>
            THEN [ok |-> TRUE, val |-> JSONNull, next |-> j + 4]
        ELSE ParseFailed

ParseItems(s, i, items) ==
    LET r == ParseValue(s, i)
    IN  IF ~r.ok THEN ParseFailed
        ELSE LET k == SkipWhitespace(s, r.next)
             IN  IF k > Len(s) THEN ParseFailed
                 ELSE IF s[k] = "," THEN ParseItems(s, k + 1, Append(items, r.val))
                 ELSE IF s[k] = "]"
                   THEN [ok |-> TRUE, val |-> JSONArray(Append(items, r.val)),
                         next |-> k + 1]
                 ELSE ParseFailed

\* JSON.parse(text): ok is FALSE where JSON.parse throws a SyntaxError
JSONParse(text) ==
    LET r == ParseValue(text, 1)
    IN  IF r.ok /\ SkipWhitespace(text, r.next) > Len(text)
          THEN [ok |-> TRUE, val |-> r.val]
          ELSE [ok |-> FALSE, val |-> JSONNull]

\* Array.isArray
IsArray(v) == v.kind = "array"

Spaces(n) == [i \in 1..n |-> " "]

\* JSON.stringify(value, null, 2) at nesting depth `depth`
RECURSIVE Stringify(_, _)
RECURSIVE StringifyItems(_, _)
Stringify(v, depth) ==
    CASE v.kind = "number" -> NumberText(v.num)
      [] v.kind = "object" -> <<"{", "}">>
      [] v.kind = "null" -> <<"n", "u", "l", "l">>
      [] v.kind = "array" ->
            IF v.items = <<>> THEN <<"[", "]">>
            ELSE <<"[">> \o StringifyItems(v.items, depth + 1)
                     \o <<"\n">> \o Spaces(2 * depth) \o <<"]">>

StringifyItems(items, depth) ==
    IF items = <<>> THEN <<>>
    ELSE <<"\n">> \o Spaces(2 * depth) \o Stringify(Head(items), depth)
            \o (IF Len(items) > 1 THEN <<",">> ELSE <<>>)
            \o StringifyItems(Tail(items), depth)

-----------------------------------------------------------------------------
(***************************************************************************)
(* components/tree-form.tsx: TreeForm                                       *)
(***************************************************************************)

FormFrame == UNCHANGED <<adminVars, pageVars, dashVars, searchVars, proxyVars, seedVars, userVars, detailVars, pagingVars>>

\* Number inputs are registered with valueAsNumber: an empty input is NaN
NaN == [nan |-> TRUE, n |-> 0]
Num(n) == [nan |-> FALSE, n |-> n]

\* What the user can have in the form when pressing the submit button: the
\* fields of one required text column and of the premium section
AgeInputs == {Null, Some(NaN), Some(Num(0)), Some(Num(3))}

\* empty, an array, an object, and text that is no JSON
CareTimelineInputs ==
    {<<>>, <<"[", "1", "]">>, <<"{", "}">>, <<"[", "1">>}

\* the latitude, longitude and carbon footprint inputs: untouched, empty, zero
\* or another number
LatitudeInputs == {Null, Some(NaN), Some(Num(0)), Some(Num(5))}
LongitudeInputs == {Null, Some(Num(0))}
CarbonInputs == {Null, Some(Num(0)), Some(Num(2))}

\* the premium section left unchecked and empty but for the benefits text
PlainPremiumSection(data) ==
    /\ data.common_name = <<"a">>
    /\ ~data.is_premium
    /\ data.age = Null
    /\ data.care_timeline = <<>>
    /\ data.benefits = <<"c">>

\* one of the two free-text premium fields is filled in, the other is empty;
\* the three number inputs are filled in on forms with a plain premium section
FormInputs ==
    {data \in [common_name : {<<>>, <<"a">>},
               latitude : LatitudeInputs,
               longitude : LongitudeInputs,
               carbon_footprint : CarbonInputs,
               is_premium : BOOLEAN,
               age : AgeInputs,
               biological_conditions : {<<>>, <<"b">>},
               care_timeline : CareTimelineInputs,
               benefits : {<<>>, <<"c">>}] :
        /\ (data.biological_conditions = <<>>) # (data.benefits = <<>>)
        /\ \/ PlainPremiumSection(data)
           \/ /\ data.latitude = Null
              /\ data.longitude = Null
              /\ data.carbon_footprint = Null}

FileNames == {<<"a">>, <<"a", " ", "b">>}

\* e.target.files of the image input
FileLists == UNION {[1..n -> FileNames] : n \in 0..MaxFiles}

FormUserId == <<"u", "1">>

\* supabase.auth.getUser() outcomes
FormAuthResults == [user : {Null, Some(FormUserId)}, error : BOOLEAN]

AuthErrorMessage == "User not authenticated. Please log in again."
JsonErrorMessage == "Invalid JSON format for Care Timeline"
BackendErrorMessage == "backend error"

\* a truthy number (x || null keeps it)
TruthyNumber(x) == ~IsNull(x) /\ ~Get(x).nan /\ Get(x).n # 0

\* a truthy JSON value (initialData.care_timeline ? ... : "")
TruthyJSON(v) == v.kind \in {"array", "object"} \/ (v.kind = "number" /\ v.num # 0)

\* treeSchema (lines 18-42) under zodResolver: NaN is not a number
AgeNonNegativeSchema(data) ==
    /\ data.common_name # <<>>
    /\ IsNull(data.latitude) \/ ~Get(data.latitude).nan
    /\ IsNull(data.longitude) \/ ~Get(data.longitude).nan
    /\ IsNull(data.carbon_footprint)
          \/ (~Get(data.carbon_footprint).nan /\ Get(data.carbon_footprint).n > 0)
    /\ IsNull(data.age) \/ (~Get(data.age).nan /\ Get(data.age).n >= 0)

treeSchema(data) ==
    /\ data.common_name # <<>>
    /\ IsNull(data.latitude) \/ ~Get(data.latitude).nan
    /\ IsNull(data.longitude) \/ ~Get(data.longitude).nan
    /\ IsNull(data.carbon_footprint)
          \/ (~Get(data.carbon_footprint).nan /\ Get(data.carbon_footprint).n > 0)
    /\ IsNull(data.age) \/ (~Get(data.age).nan /\ Get(data.age).n > 0)

\* useForm defaultValues (lines 65-99)
defaultValues(initialData) ==
    IF IsNull(initialData)
      THEN [common_name |-> <<>>, latitude |-> Null, longitude |-> Null,
            carbon_footprint |-> Null, is_premium |-> FALSE, age |-> Null,
            biological_conditions |-> <<>>, care_timeline |-> <<>>, benefits |-> <<>>]
      ELSE LET t == Get(initialData)
           IN  [common_name |-> t.common_name,
                latitude |-> t.latitude,
                longitude |-> t.longitude,
                carbon_footprint |-> t.carbon_footprint,
                is_premium |-> t.is_premium,
                age |-> t.age,
                biological_conditions |->
                    IF IsNull(t.biological_conditions) THEN <<>>
                    ELSE Get(t.biological_conditions),
                care_timeline |->
                    IF ~IsNull(t.care_timeline) /\ TruthyJSON(Get(t.care_timeline))
                      THEN Stringify(Get(t.care_timeline), 0)
                      ELSE <<>>,
                benefits |-> IF IsNull(t.benefits) THEN <<>> ELSE Get(t.benefits)]

\* lines 157-170 without the Array.isArray check
parseAnyJson(data) ==
    IF data.is_premium /\ data.care_timeline # <<>>
      THEN LET r == JSONParse(data.care_timeline)
           IN  IF r.ok THEN [ok |-> TRUE, value |-> Some(r.val)]
               ELSE [ok |-> FALSE, value |-> Null]
      ELSE [ok |-> TRUE, value |-> Null]

\* lines 157-170: parsedCareTimeline, or the thrown "Invalid JSON format"
parseCareTimeline(data) ==
    IF data.is_premium /\ data.care_timeline # <<>>
      THEN LET r == JSONParse(data.care_timeline)
           IN  IF r.ok /\ IsArray(r.val) THEN [ok |-> TRUE, value |-> Some(r.val)]
               ELSE [ok |-> FALSE, value |-> Null]
      ELSE [ok |-> TRUE, value |-> Null]

\* lines 172-186
premiumFields(data, parsedCareTimeline) ==
    IF data.is_premium
      THEN [is_premium |-> TRUE,
            age |-> IF TruthyNumber(data.age) THEN data.age ELSE Null,
            biological_conditions |->
                IF data.biological_conditions # <<>>
                  THEN Some(data.biological_conditions) ELSE Null,
            care_timeline |-> parsedCareTimeline,
            benefits |-> IF data.benefits # <<>> THEN Some(data.benefits) ELSE Null]
      ELSE [is_premium |-> FALSE, age |-> Null, biological_conditions |-> Null,
            care_timeline |-> Null, benefits |-> Null]

\* the object given to update (lines 191-202) or insert (lines 212-224)
TreeRecord(data, parsedCareTimeline) ==
    [common_name |-> data.common_name,
     latitude |-> IF TruthyNumber(data.latitude) THEN data.latitude ELSE Null,
     longitude |-> IF TruthyNumber(data.longitude) THEN data.longitude ELSE Null,
     carbon_footprint |->
         IF TruthyNumber(data.carbon_footprint) THEN data.carbon_footprint ELSE Null]
        @@ premiumFields(data, parsedCareTimeline)

\* the storage API base of the backend, and the bucket
StorageUrl ==
    <<"h", "t", "t", "p", "s", ":", "/", "/", "x", "/",
      "s", "t", "o", "r", "a", "g", "e", "/", "v", "1">>

Bucket == <<"t", "r", "e", "e", "i", "m", "a", "g", "e", "s">>

\* filePath (lines 115-117)
uploadPath(userId, treeId, timestamp, fileName) ==
    userId \o <<"/">> \o treeId \o <<"/">> \o NumberText(timestamp) \o <<"-">> \o fileName

\* storage.from(bucket).getPublicUrl(filePath).data.publicUrl (lines 131-133):
\* the client library returns the URL passed through encodeURI
getPublicUrl(filePath) ==
    encodeURI(StorageUrl
              \o <<"/", "o", "b", "j", "e", "c", "t", "/", "p", "u", "b", "l", "i", "c", "/">>
              \o Bucket \o <<"/">> \o filePath)

\* the path the cleanup derives from an image URL (form lines 239-242,
\* detail client lines 48-51)
cleanupPath(image_url) ==
    LET pathSegments == split(image_url, "/")
    IN  join(slice(pathSegments,
                   indexOf(pathSegments, <<"p", "u", "b", "l", "i", "c">>) + 2), "/")

\* the id the backend gives the n-th tree
TreeIdText(n) == <<"t">> \o NumberText(n)

\* the image URLs of a tree, in table order
RECURSIVE ImageUrlsOf(_, _)
ImageUrlsOf(images, treeId) ==
    IF images = <<>> THEN <<>>
    ELSE (IF Head(images).tree_id = treeId THEN <<Head(images).image_url>> ELSE <<>>)
            \o ImageUrlsOf(Tail(images), treeId)

\* the rows left by delete().eq("tree_id", treeId)
RECURSIVE ImagesWithout(_, _)
ImagesWithout(images, treeId) ==
    IF images = <<>> THEN <<>>
    ELSE (IF Head(images).tree_id = treeId THEN <<>> ELSE <<Head(images)>>)
            \o ImagesWithout(Tail(images), treeId)

\* the form is mounted: useState and useForm (lines 52-100)
FormMounted(initialData) ==
    /\ f_pc' = "idle"
    /\ f_initial' = initialData
    /\ f_defaults' = defaultValues(initialData)
    /\ f_images' = Null
    /\ f_loading' = FALSE
    /\ f_error' = ""
    /\ f_invalid' = FALSE
    /\ f_data' = Null
    /\ f_user' = Null
    /\ f_treeId' = Null
    /\ f_written' = Null
    /\ f_calls' = {}
    /\ f_urls' = <<>>
    /\ f_onSuccess' = Null

\* the form is unmounted: its state is gone
FormUnmounted ==
    /\ f_pc' = "closed"
    /\ f_initial' = Null
    /\ f_defaults' = defaultValues(Null)
    /\ f_images' = Null
    /\ f_loading' = FALSE
    /\ f_error' = ""
    /\ f_invalid' = FALSE
    /\ f_data' = Null
    /\ f_user' = Null
    /\ f_treeId' = Null
    /\ f_written' = Null
    /\ f_calls' = {}
    /\ f_urls' = <<>>

\* the props and the form values, which onSubmit leaves alone
FormKept == UNCHANGED <<f_initial, f_defaults, f_images, f_invalid, f_data>>

\* onSubmit goes on to its next await
FormAwaits(pc) ==
    /\ f_pc' = pc
    /\ FormKept
    /\ UNCHANGED <<f_loading, f_error, f_onSuccess>>

\* the catch block without the finally block
FormFailedStillLoading(message) ==
    /\ f_error' = message
    /\ f_loading' = f_loading
    /\ f_pc' = "idle"
    /\ FormKept
    /\ UNCHANGED f_onSuccess

\* the catch and finally blocks (lines 282-289)
FormFailed(message) ==
    /\ f_error' = message
    /\ f_loading' = FALSE
    /\ f_pc' = "idle"
    /\ FormKept
    /\ UNCHANGED f_onSuccess

\* onSuccess(treeId), reset(), finally (lines 280-281, 287-289); the host page
\* pushes /trees/treeId, which unmounts the form
FormSucceeded(treeId) ==
    /\ f_onSuccess' = Some(treeId)
    /\ FormUnmounted

\* NewTreePage renders <TreeForm onSuccess=.../>
FormOpenNew ==
    /\ FormFrame
    /\ f_pc = "closed"
    /\ Len(db_trees) < MaxStored
    /\ FormMounted(Null)
    /\ UNCHANGED <<f_submits, db_trees, db_images, storage, up_log>>

\* EditTreeClient renders <TreeForm initialData={tree} .../> for a stored tree
FormOpenEdit(i) ==
    /\ FormFrame
    /\ f_pc = "closed"
    /\ i \in 1..Len(db_trees)
    /\ FormMounted(Some(db_trees[i]
                        @@ [tree_images |-> ImageUrlsOf(db_images, db_trees[i].id)]))
    /\ UNCHANGED <<f_submits, db_trees, db_images, storage, up_log>>

\* onChange of the image input (line 572), disabled while loading
FormSelectImages(files) ==
    /\ FormFrame
    /\ f_pc = "idle"
    /\ ~f_loading
    /\ f_images' = Some(files)
    /\ UNCHANGED <<f_pc, f_initial, f_defaults, f_loading, f_error, f_invalid, f_data,
                   f_user, f_treeId, f_written, f_calls, f_urls, f_onSuccess, f_submits,
                   db_trees, db_images, storage, up_log>>

\* the submit button, with the form untouched (typed is Null) or filled in:
\* handleSubmit runs the resolver and, if the data is valid, onSubmit up to
\* its first await (lines 141-149)
FormSubmit(typed) ==
    /\ FormFrame
    /\ f_pc = "idle"
    /\ ~f_loading
    /\ f_submits < MaxSubmits
    /\ LET data == IF IsNull(typed) THEN f_defaults ELSE Get(typed)
       IN  IF treeSchema(data)
             THEN /\ f_invalid' = FALSE
                  /\ f_loading' = TRUE
                  /\ f_error' = ""
                  /\ f_data' = Some(data)
                  /\ f_pc' = "getUser"
                  /\ f_user' = Null
                  /\ f_treeId' = IF IsNull(f_initial) THEN Null
                                 ELSE Some(Get(f_initial).id)
                  /\ f_written' = Null
                  /\ f_calls' = {}
                  /\ f_urls' = <<>>
                  /\ f_onSuccess' = Null
                  /\ f_submits' = f_submits + 1
             ELSE /\ f_invalid' = TRUE
                  /\ UNCHANGED <<f_loading, f_error, f_data, f_pc, f_user, f_treeId,
                                 f_written, f_calls, f_urls, f_onSuccess, f_submits>>
    /\ UNCHANGED <<f_initial, f_defaults, f_images, db_trees, db_images, storage, up_log>>

\* getUser answers (lines 146-153); the care timeline is parsed and the record
\* is built (lines 155-186); update or insert is issued (lines 188-226)
FormGetUser(res) ==
    /\ FormFrame
    /\ f_pc = "getUser"
    /\ LET data == Get(f_data)
           parsed == parseCareTimeline(data)
       IN  IF res.error \/ IsNull(res.user)
             THEN /\ FormFailed(AuthErrorMessage)
                  /\ UNCHANGED <<f_user, f_written, f_calls>>
           ELSE IF ~parsed.ok
             THEN /\ FormFailed(JsonErrorMessage)
                  /\ f_user' = res.user
                  /\ UNCHANGED <<f_written, f_calls>>
           ELSE /\ FormAwaits("write")
                /\ f_user' = res.user
                /\ f_written' = Some(TreeRecord(data, parsed.value))
                /\ f_calls' = {IF IsNull(f_initial) THEN "insert" ELSE "update"}
    /\ UNCHANGED <<f_treeId, f_urls, f_submits, db_trees, db_images, storage, up_log>>

\* update or insert answers (lines 205-233); then the images branch is entered
\* (line 235) or the submission succeeds
FormWriteDone(error) ==
    /\ FormFrame
    /\ f_pc = "write"
    /\ IF error
         THEN /\ FormFailed(BackendErrorMessage)
              /\ UNCHANGED <<f_user, f_treeId, f_written, f_calls, f_urls, db_trees>>
         ELSE LET treeId == IF IsNull(f_initial) THEN TreeIdText(Len(db_trees) + 1)
                            ELSE Get(f_initial).id
                  withImages == ~IsNull(f_images) /\ Len(Get(f_images)) > 0
              IN  /\ db_trees' =
                        IF IsNull(f_initial)
                          THEN Append(db_trees,
                                      [id |-> treeId, user_id |-> Get(f_user)]
                                          @@ Get(f_written))
                          ELSE [k \in 1..Len(db_trees) |->
                                   IF db_trees[k].id = treeId
                                     THEN [id |-> treeId, user_id |-> db_trees[k].user_id]
                                              @@ Get(f_written)
                                     ELSE db_trees[k]]
                  /\ IF ~withImages
                       THEN FormSucceeded(treeId)
                     ELSE IF ~IsNull(f_initial)
                       THEN /\ FormAwaits("removeOld")
                            /\ f_treeId' = Some(treeId)
                            /\ f_calls' = f_calls \cup
                                  (IF Get(f_initial).tree_images # <<>>
                                     THEN {"remove"} ELSE {})
                            /\ UNCHANGED <<f_user, f_written, f_urls>>
                     ELSE /\ FormAwaits("upload")
                          /\ f_treeId' = Some(treeId)
                          /\ f_calls' = f_calls \cup {"upload"}
                          /\ UNCHANGED <<f_user, f_written, f_urls>>
    /\ UNCHANGED <<f_submits, db_images, storage, up_log>>

\* the removals of the old objects have answered (lines 237-247), their
\* outcome is not looked at; the old image rows are deleted (lines 249-252)
FormRemoveOldDone ==
    /\ FormFrame
    /\ f_pc = "removeOld"
    /\ LET old == Get(f_initial).tree_images
       IN  storage' = storage \ {cleanupPath(old[k]) : k \in 1..Len(old)}
    /\ FormAwaits("deleteRows")
    /\ f_calls' = f_calls \cup {"deleteRows"}
    /\ UNCHANGED <<f_user, f_treeId, f_written, f_urls, f_submits,
                   db_trees, db_images, up_log>>

\* the delete of the old image rows answers (lines 254-260)
FormDeleteRowsDone(error) ==
    /\ FormFrame
    /\ f_pc = "deleteRows"
    /\ IF error
         THEN /\ FormFailed(BackendErrorMessage)
              /\ UNCHANGED <<f_calls, db_images>>
         ELSE /\ db_images' = ImagesWithout(db_images, Get(f_treeId))
              /\ FormAwaits("upload")
              /\ f_calls' = f_calls \cup {"upload"}
    /\ UNCHANGED <<f_user, f_treeId, f_written, f_urls, f_submits,
                   db_trees, storage, up_log>>

\* uploadImages (lines 104-139): every file is uploaded under the same
\* Date.now(); an upload fails if the backend says so or the object exists
FormUploadDone(failed) ==
    /\ FormFrame
    /\ f_pc = "upload"
    /\ LET files == Get(f_images)
           filePath == [k \in 1..Len(files) |->
                           uploadPath(Get(f_user), Get(f_treeId), f_submits, files[k])]
           stored == {k \in 1..Len(files) :
                         /\ k \notin failed
                         /\ filePath[k] \notin storage
                         /\ \A j \in 1..(k - 1) : filePath[j] # filePath[k]}
       IN  /\ failed \subseteq 1..Len(files)
           /\ storage' = storage \cup {filePath[k] : k \in stored}
           /\ up_log' = up_log \cup
                 {[path |-> filePath[k], url |-> getPublicUrl(filePath[k])] : k \in stored}
           /\ IF stored = 1..Len(files)
                THEN /\ FormAwaits("insertImages")
                     /\ f_urls' = [k \in 1..Len(files) |-> getPublicUrl(filePath[k])]
                     /\ f_calls' = f_calls \cup {"insertImages"}
                ELSE /\ FormFailed(BackendErrorMessage)
                     /\ UNCHANGED <<f_urls, f_calls>>
    /\ UNCHANGED <<f_user, f_treeId, f_written, f_submits, db_trees, db_images>>

\* the insert of the image rows answers (lines 265-278), then lines 280-281
FormInsertImagesDone(error) ==
    /\ FormFrame
    /\ f_pc = "insertImages"
    /\ IF error
         THEN /\ FormFailed(BackendErrorMessage)
              /\ UNCHANGED <<f_user, f_treeId, f_written, f_calls, f_urls, db_images>>
         ELSE /\ db_images' = db_images \o
                    [k \in 1..Len(f_urls) |->
                        [tree_id |-> Get(f_treeId), image_url |-> f_urls[k]]]
              /\ FormSucceeded(Get(f_treeId))
    /\ UNCHANGED <<f_submits, db_trees, storage, up_log>>

\* the Back control of the host page (new page line 18, edit client line 54)
FormBack ==
    /\ FormFrame
    /\ f_pc = "idle"
    /\ FormUnmounted
    /\ f_onSuccess' = Null
    /\ UNCHANGED <<f_submits, db_trees, db_images, storage, up_log>>

\* no form is mounted and the backend holds no tree
FormIdle ==
    /\ f_pc = "closed"
    /\ f_initial = Null
    /\ f_defaults = defaultValues(Null)
    /\ f_images = Null
    /\ f_loading = FALSE
    /\ f_error = ""
    /\ f_invalid = FALSE
    /\ f_data = Null
    /\ f_user = Null
    /\ f_treeId = Null
    /\ f_written = Null
    /\ f_calls = {}
    /\ f_urls = <<>>
    /\ f_onSuccess = Null
    /\ f_submits = 0
    /\ db_trees = <<>>
    /\ db_images = <<>>
    /\ storage = {}
    /\ up_log = {}

\* a number input that holds no number
EmptyNumber(x) == IsNull(x) \/ Get(x).nan

(* C8: TreeForm.onSubmit: when is_premium is unchecked, the record written
   (insert or update) has is_premium = false and age, biological_conditions,
   care_timeline and benefits all null, whatever those form fields contain;
   when is_premium is checked, the record has is_premium = true and each
   premium field holds the form's value, or null if the field is empty. *)
C8_PremiumFieldsWritten ==
    ~IsNull(f_written) =>
        LET data == Get(f_data)
            rec == Get(f_written)
        IN  IF ~data.is_premium
              THEN /\ rec.is_premium = FALSE
                   /\ rec.age = Null
                   /\ rec.biological_conditions = Null
                   /\ rec.care_timeline = Null
                   /\ rec.benefits = Null
              ELSE /\ rec.is_premium = TRUE
                   /\ rec.age = (IF EmptyNumber(data.age) THEN Null ELSE data.age)
                   /\ rec.biological_conditions =
                         (IF data.biological_conditions = <<>> THEN Null
                          ELSE Some(data.biological_conditions))
                   /\ rec.care_timeline =
                         (IF data.care_timeline = <<>> THEN Null
                          ELSE Some(JSONParse(data.care_timeline).val))
                   /\ rec.benefits =
                         (IF data.benefits = <<>> THEN Null ELSE Some(data.benefits))

(* C21: TreeForm.onSubmit writes every latitude, longitude and
   carbon_footprint value that passed validation to the store unchanged
   (including latitude 0 or longitude 0), and writes null for such a field
   only when it was left empty. *)
C21_NumbersWrittenUnchanged ==
    ~IsNull(f_written) =>
        LET data == Get(f_data)
            rec == Get(f_written)
        IN  /\ rec.latitude =
                  (IF EmptyNumber(data.latitude) THEN Null ELSE data.latitude)
            /\ rec.longitude =
                  (IF EmptyNumber(data.longitude) THEN Null ELSE data.longitude)
            /\ rec.carbon_footprint =
                  (IF EmptyNumber(data.carbon_footprint) THEN Null
                   ELSE data.carbon_footprint)

\* a premium tree with a care timeline and no benefits text has been stored,
\* its images are being uploaded
C8_Witness ==
    /\ f_pc = "upload"
    /\ ~IsNull(f_written)
    /\ Get(f_data).is_premium
    /\ Get(f_data).care_timeline = <<"[", "1", "]">>
    /\ Get(f_data).benefits = <<>>
    /\ Get(f_data).age = Some(Num(3))
    /\ \E k \in 1..Len(db_trees) :
          /\ db_trees[k].care_timeline = Some(JSONArray(<<JSONNumber(1)>>))
          /\ db_trees[k].benefits = Null

\* the care timeline text of the submission is no JSON array
BadCareTimeline(data) ==
    /\ data.is_premium
    /\ data.care_timeline # <<>>
    /\ ~(JSONParse(data.care_timeline).ok /\ IsArray(JSONParse(data.care_timeline).val))

\* every care_timeline the form has written or stored is null or an array
CareTimelinesAreArrays ==
    /\ ~IsNull(f_written) =>
          (IsNull(Get(f_written).care_timeline) \/ IsArray(Get(Get(f_written).care_timeline)))
    /\ \A k \in 1..Len(db_trees) :
          IsNull(db_trees[k].care_timeline) \/ IsArray(Get(db_trees[k].care_timeline))

(* C9 as stated: TreeForm.onSubmit: when is_premium is checked and
   care_timeline is non-empty text that does not parse as a JSON array, the
   submission stops with an 'Invalid JSON format for Care Timeline' error
   before any insert, update, upload or delete is issued; hence a
   care_timeline value written by the form is always null or a JSON array. *)
C9_StopsWithJsonError ==
    /\ (~IsNull(f_data) /\ BadCareTimeline(Get(f_data)) /\ f_pc # "getUser") =>
          /\ f_error = JsonErrorMessage
          /\ f_calls = {}
          /\ IsNull(f_written)
    /\ CareTimelinesAreArrays

(* C9, amended: when getUser has returned a user without error, is_premium is
   checked and care_timeline is non-empty text that does not parse as a JSON
   array, the submission stops with an 'Invalid JSON format for Care Timeline'
   error before any insert, update, upload or delete is issued; when getUser
   fails it stops with the authentication error instead, also before any such
   call; a care_timeline value written by the form is always null or a JSON
   array. *)
C9_StopsBeforeAnyWrite ==
    /\ (~IsNull(f_data) /\ BadCareTimeline(Get(f_data)) /\ f_pc # "getUser") =>
          /\ f_error = (IF IsNull(f_user) THEN AuthErrorMessage ELSE JsonErrorMessage)
          /\ ~f_loading
          /\ f_calls = {}
          /\ IsNull(f_written)
          /\ IsNull(f_onSuccess)
    /\ CareTimelinesAreArrays

\* an authenticated submission with the care timeline {} has been stopped
C9_Witness ==
    /\ f_pc = "idle"
    /\ ~IsNull(f_data)
    /\ Get(f_data).is_premium
    /\ Get(f_data).care_timeline = <<"{", "}">>
    /\ ~IsNull(f_user)
    /\ f_error = JsonErrorMessage
    /\ f_calls = {}

(* C10: for every image the form uploads at storage path
   userId/treeId/fileName in bucket 'treeimages', the path that the cleanup
   routines derive from its public URL (the URL segments after the one that
   follows 'public', rejoined with '/') equals that upload path. *)
C10_CleanupPathIsUploadPath ==
    \A up \in up_log : cleanupPath(up.url) = up.path

\* the stored objects behind the image URLs of the tree being edited
OldObjects ==
    {up.path : up \in {u \in up_log :
        \E k \in 1..Len(Get(f_initial).tree_images) :
            Get(f_initial).tree_images[k] = u.url}}

(* C11: TreeForm edit: if new images are selected and the submission
   succeeds, the tree's image records afterwards are exactly the newly
   uploaded images, and all previous records and their stored objects are
   removed; if no images are selected and the submission succeeds, the tree's
   existing image records and stored objects are left unchanged. *)
C11_EditReplacesImages ==
    [][(~IsNull(f_initial) /\ f_pc' = "closed" /\ ~IsNull(f_onSuccess')) =>
          IF f_pc = "insertImages"
            THEN /\ ImageUrlsOf(db_images', Get(f_treeId)) = f_urls
                 /\ \A k \in 1..Len(f_urls) :
                       \E up \in up_log : up.url = f_urls[k] /\ up.path \in storage'
                 /\ OldObjects \cap storage' = {}
            ELSE /\ db_images' = db_images
                 /\ storage' = storage]_vars

\* a step of onSubmit reports an error: getUser, the tree insert/update, the
\* delete of the old image rows, an upload, the insert of the image rows
FormStepFails ==
    \/ \E res \in FormAuthResults : (res.error \/ IsNull(res.user)) /\ FormGetUser(res)
    \/ FormWriteDone(TRUE)
    \/ FormDeleteRowsDone(TRUE)
    \/ (f_pc = "upload" /\ f_pc' # "insertImages"
            /\ \E failed \in SUBSET (1..MaxFiles) : FormUploadDone(failed))
    \/ FormInsertImagesDone(TRUE)

(* C13: TreeForm.onSubmit: if authentication or any remote step (tree
   insert/update, deletion of old image records, image upload, image-record
   insert) reports an error, the error message is shown to the user,
   onSuccess is not called, and loading returns to false; onSuccess is called
   exactly once, with the tree's id, only when every step succeeded. *)
C13_ErrorsShownSuccessOnce ==
    /\ [][FormStepFails =>
             /\ f_error' # ""
             /\ IsNull(f_onSuccess')
             /\ ~f_loading'
             /\ f_pc' = "idle"]_vars
    /\ [][(~IsNull(f_onSuccess') /\ f_onSuccess' # f_onSuccess) =>
             /\ IsNull(f_onSuccess)
             /\ f_error = ""
             /\ FormWriteDone(FALSE) \/ FormInsertImagesDone(FALSE)
             /\ f_pc' = "closed" /\ ~f_loading'
             /\ \E k \in 1..Len(db_trees') :
                   /\ f_onSuccess' = Some(db_trees'[k].id)
                   /\ db_trees'[k].is_premium = Get(f_written).is_premium
                   /\ db_trees'[k].care_timeline = Get(f_written).care_timeline
             /\ (~IsNull(f_images) /\ Len(Get(f_images)) > 0) =>
                   /\ ImageUrlsOf(db_images', Get(f_onSuccess')) = f_urls
                   /\ Len(f_urls) = Len(Get(f_images))]_vars

\* an upload has failed: the message is shown and onSuccess was not called
C13_Witness ==
    /\ f_pc = "idle"
    /\ "upload" \in f_calls
    /\ "insertImages" \notin f_calls
    /\ f_error = BackendErrorMessage
    /\ IsNull(f_onSuccess)
    /\ ~f_loading

\* the image records of the tree being edited, as the form was opened with
\* them, are all still in tree_images
OldRecordsIn(images) ==
    LET old == Get(f_initial).tree_images
        now == ImageUrlsOf(images, Get(f_initial).id)
    IN  \A k \in 1..Len(old) : \E j \in 1..Len(now) : now[j] = old[k]

(* C17: TreeForm edit with new images selected: if the submission fails at
   any step, the tree's previously stored image objects and image records are
   still present afterwards; old images are lost only when the new images
   were uploaded and recorded successfully. *)
C17_FailedEditKeepsOldImages ==
    [][(/\ ~IsNull(f_initial)
        /\ ~IsNull(f_images) /\ Len(Get(f_images)) > 0
        /\ FormStepFails) =>
          /\ OldObjects \subseteq storage'
          /\ OldRecordsIn(db_images')]_vars

-----------------------------------------------------------------------------
(***************************************************************************)
(* app/api/admin/create-user/route.ts and app/api/admin/delete-user/route.ts *)
(***************************************************************************)

ProxyFrame == UNCHANGED <<adminVars, pageVars, dashVars, searchVars, formVars, seedVars, userVars, detailVars, pagingVars>>

ProxyRoutes == {"create-user", "delete-user"}

\* the remote function a route forwards to (line 14 of each route)
edgeFunctionUrl(route) ==
    IF route = "create-user" THEN "functions/v1/create-user-by-admin-"
    ELSE "functions/v1/delete-user-by-admin"

\* the fixed message of a route (line 31 of each route)
DefaultErrorMessage(route) ==
    IF route = "create-user" THEN "Failed to create user via Edge Function"
    ELSE "Failed to delete user via Edge Function"

\* the fields a route takes from the request body (line 6 / line 7)
RouteFields(route) ==
    IF route = "create-user" THEN {"email", "password", "roleName"} ELSE {"userId"}

\* request bodies: text that is no JSON, JSON null, a JSON number, or an
\* object with some of the fields (a field of an object is its name here)
RequestBodies ==
    {[kind |-> "invalid", fields |-> {}], [kind |-> "null", fields |-> {}],
     [kind |-> "number", fields |-> {}]}
        \cup {[kind |-> "object", fields |-> fs] :
                fs \in {{}, {"email"}, {"email", "password", "roleName"},
                        {"userId"}, {"userId", "extra"}}}

AuthHeaders == {Null, Some(""), Some("Bearer token")}

\* what the remote function can answer: a status and a body that is a JSON
\* object (with or without an error text), JSON null, or no JSON at all
RemoteStatuses == {200, 201, 400, 401, 404, 500, 502}

RemoteBodies ==
    {[kind |-> "notjson", error |-> Null], [kind |-> "null", error |-> Null]}
        \cup {[kind |-> "object", error |-> e] : e \in {Null, Some(""), Some("denied")}}

RemoteReplies == [status : RemoteStatuses, body : RemoteBodies]

\* messages of the errors fetch() throws
FetchErrorMessages == {"", "fetch failed"}

JsonParseMessage == "Unexpected token in JSON"
TypeErrorMessage == "Cannot read properties of null"

\* Response.ok
ResponseOk(status) == status >= 200 /\ status <= 299

\* the catch block (lines 37-43)
ProxyCaught(message) ==
    [status |-> 500,
     error |-> Some(IF message # "" THEN message ELSE "Internal Server Error"),
     data |-> Null]

\* lines 26-36: the reply's body is parsed, then the status is looked at
ProxyAnswer(route, reply) ==
    IF reply.body.kind = "notjson" THEN ProxyCaught(JsonParseMessage)
    ELSE IF ~ResponseOk(reply.status)
      THEN IF reply.body.kind = "null" THEN ProxyCaught(TypeErrorMessage)
           ELSE [status |-> reply.status,
                 error |-> Some(IF ~IsNull(reply.body.error) /\ Get(reply.body.error) # ""
                                  THEN Get(reply.body.error)
                                  ELSE DefaultErrorMessage(route)),
                 data |-> Null]
    ELSE [status |-> 200, error |-> Null, data |-> Some(reply.body)]

\* POST is called with a request (line 4)
ProxyPost(route, body, authHeader) ==
    /\ ProxyFrame
    /\ px_pc \in {"idle", "done"}
    /\ px_pc' = "reading"
    /\ px_route' = route
    /\ px_request' = body
    /\ px_auth' = authHeader
    /\ px_forwarded' = Null
    /\ px_reply' = Null
    /\ px_responses' = <<>>

\* a route that answers 401 itself when the Authorization header is absent
ProxyReadChecksAuth ==
    /\ ProxyFrame
    /\ px_pc = "reading"
    /\ IF px_request.kind = "invalid"
         THEN /\ px_responses' = Append(px_responses, ProxyCaught(JsonParseMessage))
              /\ px_pc' = "done"
              /\ UNCHANGED px_forwarded
       ELSE IF px_request.kind = "null"
         THEN /\ px_responses' = Append(px_responses, ProxyCaught(TypeErrorMessage))
              /\ px_pc' = "done"
              /\ UNCHANGED px_forwarded
       ELSE IF IsNull(px_auth)
         THEN /\ px_responses' = Append(px_responses,
                                        [status |-> 401, error |-> Some("Unauthorized"),
                                         data |-> Null])
              /\ px_pc' = "done"
              /\ UNCHANGED px_forwarded
       ELSE /\ px_forwarded' =
                  Some([url |-> edgeFunctionUrl(px_route),
                        method |-> "POST",
                        Authorization |-> IF IsNull(px_auth) THEN "" ELSE Get(px_auth),
                        body |-> px_request.fields \cap RouteFields(px_route)])
            /\ px_pc' = "fetching"
            /\ UNCHANGED px_responses
    /\ UNCHANGED <<px_route, px_request, px_auth, px_reply>>

\* request.json() settles (line 6); the fields are taken from the body and the
\* remote function is called (lines 10-24)
ProxyRead ==
    /\ ProxyFrame
    /\ px_pc = "reading"
    /\ IF px_request.kind = "invalid"
         THEN /\ px_responses' = Append(px_responses, ProxyCaught(JsonParseMessage))
              /\ px_pc' = "done"
              /\ UNCHANGED px_forwarded
       ELSE IF px_request.kind = "null"
         THEN /\ px_responses' = Append(px_responses, ProxyCaught(TypeErrorMessage))
              /\ px_pc' = "done"
              /\ UNCHANGED px_forwarded
       ELSE /\ px_forwarded' =
                  Some([url |-> edgeFunctionUrl(px_route),
                        method |-> "POST",
                        Authorization |-> IF IsNull(px_auth) THEN "" ELSE Get(px_auth),
                        body |-> px_request.fields \cap RouteFields(px_route)])
            /\ px_pc' = "fetching"
            /\ UNCHANGED px_responses
    /\ UNCHANGED <<px_route, px_request, px_auth, px_reply>>

\* fetch resolves with a reply; its body is read and the route answers
\* (lines 26-36, or the catch block)
ProxyFetchAnswered(reply) ==
    /\ ProxyFrame
    /\ px_pc = "fetching"
    /\ px_reply' = Some(reply)
    /\ px_responses' = Append(px_responses, ProxyAnswer(px_route, reply))
    /\ px_pc' = "done"
    /\ UNCHANGED <<px_route, px_request, px_auth, px_forwarded>>

\* fetch rejects (the remote cannot be reached)
ProxyFetchThrows(message) ==
    /\ ProxyFrame
    /\ px_pc = "fetching"
    /\ px_responses' = Append(px_responses, ProxyCaught(message))
    /\ px_pc' = "done"
    /\ UNCHANGED <<px_route, px_request, px_auth, px_forwarded, px_reply>>

ProxyIdle ==
    /\ px_pc = "idle"
    /\ px_route = "create-user"
    /\ px_request = [kind |-> "null", fields |-> {}]
    /\ px_auth = Null
    /\ px_forwarded = Null
    /\ px_reply = Null
    /\ px_responses = <<>>

(* C12: the create-user and delete-user proxy routes: when the remote
   function answers non-OK, the route responds with the same HTTP status and
   the remote's error text (or a fixed default message if absent); when it
   answers OK, the route responds with status 200 and the remote body; when
   reading the request or calling the remote throws, the route responds with
   status 500 and an error message.  Every request receives exactly one
   response. *)
C12_ProxyResponses ==
    /\ Len(px_responses) <= 1
    /\ px_pc = "done" =>
          /\ Len(px_responses) = 1
          /\ LET response == px_responses[1]
             IN  IF IsNull(px_reply)
                   THEN response.status = 500 /\ ~IsNull(response.error)
                 ELSE IF ResponseOk(Get(px_reply).status)
                   THEN /\ response.status = 200
                        /\ response.data = Some(Get(px_reply).body)
                 ELSE /\ response.status = Get(px_reply).status
                      /\ response.error =
                            Some(IF IsNull(Get(px_reply).body.error)
                                      \/ Get(px_reply).body.error = Some("")
                                   THEN DefaultErrorMessage(px_route)
                                   ELSE Get(Get(px_reply).body.error))

-----------------------------------------------------------------------------
(***************************************************************************)
(* scripts/seed-data.js: one run of seedData, insert by insert             *)
(***************************************************************************)

SeedFrame == UNCHANGED <<adminVars, pageVars, dashVars, searchVars, formVars, proxyVars, userVars, detailVars, pagingVars>>

\* Math.random() returns n / RandomDenominator for some n in 0..RandomDenominator-1
RandomDenominator == 100

\* Math.floor(Math.random() * range) for the draw n
RandomBelow(n, range) == (n * range) \div RandomDenominator

\* The draws of one run, per tree: all lowest, all highest, and mixed
RandomRuns ==
    {[index \in 0..(NUM_TREES_TO_GENERATE - 1) |->
        [numImages |-> 0, age |-> 0, numEvents |-> 0]],
     [index \in 0..(NUM_TREES_TO_GENERATE - 1) |->
        [numImages |-> RandomDenominator - 1, age |-> RandomDenominator - 1,
         numEvents |-> RandomDenominator - 1]],
     [index \in 0..(NUM_TREES_TO_GENERATE - 1) |->
        [numImages |-> (index * 37) % RandomDenominator,
         age |-> (index * 53 + 7) % RandomDenominator,
         numEvents |-> (index * 61 + 11) % RandomDenominator]]}

\* Inserts the backend may fail during one run
MaxSeedErrors == 2

benefitsOptions ==
    <<"Air purification\nCarbon sequestration\nSoil conservation",
      "Noise reduction\nTemperature regulation\nBiodiversity support",
      "Erosion control\nWildlife habitat\nOxygen production",
      "Urban cooling\nStormwater management\nAesthetic enhancement",
      "Mental health benefits\nProperty value increase\nWindbreak protection">>

biologicalConditionsOptions ==
    <<"Healthy root system with good drainage. Regular watering schedule maintained. No signs of disease or pest infestation.",
      "Established mature tree with strong trunk. Seasonal pruning completed. Excellent soil conditions with proper pH balance.",
      "Young sapling with developing root structure. Protected from strong winds. Regular fertilization program in place.",
      "Mature specimen showing excellent growth patterns. Well-adapted to local climate conditions. Minimal maintenance required.",
      "Recently transplanted with careful root ball preservation. Monitoring for transplant shock. Supplemental watering ongoing.">>

\* generateCareTimeline (lines 123-139): the first 3 to 5 of the seven events
careEvents ==
    <<[date |-> "2024-01-15", event |-> "Initial planting and soil preparation"],
      [date |-> "2024-02-20", event |-> "First fertilization and mulching"],
      [date |-> "2024-04-10", event |-> "Pruning of lower branches for clearance"],
      [date |-> "2024-06-05", event |-> "Pest inspection and treatment application"],
      [date |-> "2024-08-12", event |-> "Deep watering system installation"],
      [date |-> "2024-10-18", event |-> "Health assessment and growth measurement"],
      [date |-> "2024-12-22", event |-> "Winter protection and stake adjustment"]>>

generateCareTimeline(draw) ==
    LET numEvents == RandomBelow(draw, 3) + 3
    IN  SubSeq(careEvents, 1, numEvents)

\* The names of the columns only a premium tree gets (lines 192-198, 243-248)
PremiumColumns == {"age", "biological_conditions", "care_timeline", "benefits"}

\* generateDummyTree (lines 141-201) with the draws of Math.random made
\* explicit: the image URLs (by their imgIndex) and the premium fields.
\* facts, description, latitude, longitude and carbon_footprint are left out.
DummyTree(index, draws) ==
    LET tree == generateDummyTree(index)
        numImages == RandomBelow(draws.numImages, 4) + 2
        withImages == tree @@ [image_urls |-> [imgIndex \in 1..numImages |-> imgIndex]]
    IN  IF tree.is_premium
          THEN withImages @@
               [age |-> RandomBelow(draws.age, 50) + 5,
                biological_conditions |->
                    biologicalConditionsOptions[(index % Len(biologicalConditionsOptions)) + 1],
                care_timeline |-> generateCareTimeline(draws.numEvents),
                benefits |-> benefitsOptions[(index % Len(benefitsOptions)) + 1]]
          ELSE withImages

\* treeData of seedData (lines 228-248)
treeData(tree) ==
    LET common == [common_name |-> tree.common_name,
                   scientific_name |-> tree.scientific_name,
                   location |-> tree.location,
                   landmark |-> tree.landmark,
                   is_premium |-> tree.is_premium]
    IN  IF tree.is_premium
          THEN common @@ [age |-> tree.age,
                          biological_conditions |-> tree.biological_conditions,
                          care_timeline |-> tree.care_timeline,
                          benefits |-> tree.benefits]
          ELSE common

\* Inserts that failed so far: every tree has images, so a tree without image
\* rows is one whose tree insert or image insert failed
SeedErrors == seed_index - Cardinality({row.tree_id : row \in {seed_imagesTable[k] : k \in 1..Len(seed_imagesTable)}})

\* The loop moves to the next tree, or seedData prints the summary
SeedAdvance ==
    /\ seed_index' = seed_index + 1
    /\ seed_pc' = IF seed_index + 1 < NUM_TREES_TO_GENERATE THEN "tree" ELSE "done"

\* node scripts/seed-data.js (lines 203-226): the placeholder check, then
\* allDummyTrees, up to the first insert
SeedStart(configured, run) ==
    /\ SeedFrame
    /\ seed_pc = "idle"
    /\ IF ~configured
         THEN /\ seed_pc' = "done"
              /\ UNCHANGED <<seed_allDummyTrees, seed_index, seed_newTree, seed_treesTable,
                             seed_imagesTable, seed_successCount, seed_premiumCount,
                             seed_totalImages>>
         ELSE /\ seed_allDummyTrees' =
                    [k \in 1..NUM_TREES_TO_GENERATE |-> DummyTree(k - 1, run[k - 1])]
              /\ seed_index' = 0
              /\ seed_pc' = "tree"
              /\ UNCHANGED <<seed_newTree, seed_treesTable, seed_imagesTable,
                             seed_successCount, seed_premiumCount, seed_totalImages>>

\* the insert into trees answers (lines 250-276)
SeedTreeInserted(error) ==
    /\ SeedFrame
    /\ seed_pc = "tree"
    /\ error => SeedErrors < MaxSeedErrors
    /\ LET tree == seed_allDummyTrees[seed_index + 1]
           id == Len(seed_treesTable) + 1
       IN  IF error
             THEN /\ SeedAdvance
                  /\ UNCHANGED <<seed_newTree, seed_treesTable, seed_successCount,
                                 seed_premiumCount>>
             ELSE /\ seed_treesTable' = Append(seed_treesTable, [id |-> id] @@ treeData(tree))
                  /\ seed_newTree' = Some(id)
                  /\ seed_successCount' = seed_successCount + 1
                  /\ seed_premiumCount' =
                        IF tree.is_premium THEN seed_premiumCount + 1 ELSE seed_premiumCount
                  /\ IF Len(tree.image_urls) > 0
                       THEN seed_pc' = "images" /\ seed_index' = seed_index
                       ELSE SeedAdvance
    /\ UNCHANGED <<seed_allDummyTrees, seed_imagesTable, seed_totalImages>>

\* the insert into tree_images answers (lines 278-303)
SeedImagesInserted(error) ==
    /\ SeedFrame
    /\ seed_pc = "images"
    /\ error => SeedErrors < MaxSeedErrors
    /\ LET tree == seed_allDummyTrees[seed_index + 1]
           imageInserts == [k \in 1..Len(tree.image_urls) |->
                               [tree_id |-> Get(seed_newTree),
                                image_url |-> tree.image_urls[k]]]
       IN  IF error
             THEN UNCHANGED <<seed_imagesTable, seed_totalImages>>
             ELSE /\ seed_imagesTable' = seed_imagesTable \o imageInserts
                  /\ seed_totalImages' = seed_totalImages + Len(imageInserts)
    /\ SeedAdvance
    /\ UNCHANGED <<seed_allDummyTrees, seed_newTree, seed_treesTable, seed_successCount,
                   seed_premiumCount>>

SeedIdle ==
    /\ seed_pc = "idle"
    /\ seed_allDummyTrees = <<>>
    /\ seed_index = 0
    /\ seed_newTree = Null
    /\ seed_treesTable = <<>>
    /\ seed_imagesTable = <<>>
    /\ seed_successCount = 0
    /\ seed_premiumCount = 0
    /\ seed_totalImages = 0

\* The trees of allDummyTrees that are premium, by their 0-based index
GeneratedPremium ==
    {i \in 0..(Len(seed_allDummyTrees) - 1) : seed_allDummyTrees[i + 1].is_premium}

(* C15: the seed script marks the tree with 0-based index i premium exactly
   when i + 1 is a multiple of 3, so 5 of the 15 generated trees are premium;
   only premium trees are inserted with age, biological_conditions,
   care_timeline and benefits; a premium tree's age lies between 5 and 55. *)
C15_SeedPremiumTrees ==
    /\ \A i \in 0..(Len(seed_allDummyTrees) - 1) :
          i \in GeneratedPremium <=> (i + 1) % 3 = 0
    /\ seed_allDummyTrees # <<>> =>
          /\ Len(seed_allDummyTrees) = 15
          /\ Cardinality(GeneratedPremium) = 5
    /\ \A k \in 1..Len(seed_treesTable) :
          LET row == seed_treesTable[k]
          IN  /\ \E i \in 0..(Len(seed_allDummyTrees) - 1) :
                    /\ seed_allDummyTrees[i + 1].common_name = row.common_name
                    /\ row.is_premium <=> (i + 1) % 3 = 0
              /\ \A column \in PremiumColumns : column \in DOMAIN row <=> row.is_premium
              /\ row.is_premium => row.age >= 5 /\ row.age <= 55

\* The run ended with every tree inserted, premium trees of the lowest and of
\* the highest age among them
C15_Witness ==
    /\ seed_pc = "done"
    /\ seed_successCount = NUM_TREES_TO_GENERATE
    /\ seed_premiumCount = 5
    /\ \E k \in 1..Len(seed_treesTable) :
          seed_treesTable[k].is_premium /\ seed_treesTable[k].age > 50
    /\ \E k \in 1..Len(seed_treesTable) : ~seed_treesTable[k].is_premium

-----------------------------------------------------------------------------
(***************************************************************************)
(* components/admin/user-manager-client.tsx: UserManagerClient, in its two *)
(* versions: `shared` has one loading flag for everything, `granular` has  *)
(* isFetchingUsers, isCreatingUser, isUpdatingRole and deletingUserId      *)
(***************************************************************************)

UsersFrame ==
    UNCHANGED <<adminVars, pageVars, dashVars, searchVars, formVars, proxyVars, seedVars,
                detailVars, pagingVars>>

ADMIN_PAGE_SIZE == 10

\* Profiles in the table when the admin page is requested: one page and a row
NumProfiles == 11

\* Operations the component may have in flight at once
MaxUserOps == 3

\* Role changes, account creations and confirmed deletions the admin starts
MaxHandlerRuns == 1

\* The id of the signed-in admin's own profile
OwnId == 1

\* The profiles the admin acts on: the own one and another one
TargetIds == {OwnId, 2}

\* profiles.full_name
FullName(id) == IF id <= 2 THEN <<"a">> ELSE <<"b">>

\* What the search box can hold
UserQueries == {<<>>, <<"a">>}

\* The roles table, as .order("name") returns it
RolesTable == <<[id |-> 1, name |-> "admin"], [id |-> 2, name |-> "user"]>>

\* The profiles table when the admin page is requested
InitialProfilesTable == [id \in 1..NumProfiles |-> IF id = OwnId THEN "admin" ELSE "user"]

\* .order("full_name", { ascending: true }) of the profiles with an id in
\* `ids`; profiles of the same name come in the order of their ids
RECURSIVE OrderByFullName(_)
OrderByFullName(ids) ==
    IF ids = {} THEN <<>>
    ELSE LET before(i, j) ==
                 \/ (FullName(i) = <<"a">> /\ FullName(j) = <<"b">>)
                 \/ (FullName(i) = FullName(j) /\ i <= j)
             first == CHOOSE i \in ids : \A j \in ids : before(i, j)
         IN  <<first>> \o OrderByFullName(ids \ {first})

\* The ids whose full_name matches `%query%`, for every text of the search box
FullNameMatches ==
    [query \in UserQueries |->
        {id \in 1..NumProfiles :
            query # <<>> => ILike(FullName(id), <<"%">> \o query \o <<"%">>)}]

\* fetchUsers(page, query) against the table (shared lines 117-162, granular
\* lines 132-176): the rows of the range and the exact count; an error of the
\* backend, or a range that starts past the last row, sets the list to [] and
\* the total to 0
fetchUsers(table, page, query, error) ==
    LET ordered == OrderByFullName(DOMAIN table \cap FullNameMatches[query])
        rows == [k \in 1..Len(ordered) |-> [id |-> ordered[k], role |-> table[ordered[k]]]]
        res == RangeOf(rows, page, ADMIN_PAGE_SIZE, error)
    IN  [failed |-> error \/ (page * ADMIN_PAGE_SIZE > 0 /\ page * ADMIN_PAGE_SIZE >= Len(rows)),
         profiles |-> res.trees,
         count |-> res.count]

\* const totalPages = Math.ceil(totalProfiles / adminPageSize)
UserTotalPages == Ceil(um_totalProfiles, ADMIN_PAGE_SIZE)

\* An operation in flight
Op(kind, page, query, id, role, me) ==
    [kind |-> kind, page |-> page, query |-> query, id |-> id, role |-> role, me |-> me]

\* The operations in flight have no order among them: the model keeps them
\* sorted, so that one collection of operations is one state
KindRank(kind) ==
    CASE kind = "getUser" -> 0 [] kind = "roles" -> 1 [] kind = "users" -> 2
      [] kind = "roleUpdate" -> 3 [] kind = "createSession" -> 4
      [] kind = "createFetch" -> 5 [] kind = "deleteSession" -> 6
      [] kind = "deleteFetch" -> 7 [] OTHER -> 8

OpRank(op) ==
    ((((KindRank(op.kind) * 4 + op.page) * 4 + Len(op.query)) * 16 + op.id) * 2
        + (IF op.role = "admin" THEN 1 ELSE 0)) * 2 + Len(op.me)

AddOp(pending, op) ==
    LET n == Cardinality({k \in 1..Len(pending) : OpRank(pending[k]) <= OpRank(op)})
    IN  SubSeq(pending, 1, n) \o <<op>> \o SubSeq(pending, n + 1, Len(pending))

FetchUserOp == Op("getUser", 0, <<>>, 0, "", Null)
FetchRolesOp == Op("roles", 0, <<>>, 0, "", Null)
FetchUsersOp(page, query) == Op("users", page, query, 0, "", Null)

\* The i-th operation in flight is of this kind, and the page is still loaded
Answers(i, kind) ==
    /\ um_location = "/admin"
    /\ i \in 1..Len(um_pending)
    /\ um_pending[i].kind = kind

Granular == um_version = "granular"

\* The ids of the rows shown
ShownIds == {um_profiles[k].id : k \in 1..Len(um_profiles)}

\* The loading screen replaces everything while the flag is set and neither
\* profiles nor roles are there (shared line 340, granular line 361)
UsersRendered ==
    /\ um_mounted
    /\ um_location = "/admin"
    /\ ~(um_loading /\ um_profiles = <<>> /\ um_roles = <<>>)

\* disabled= of the Delete button of a row (shared line 527, granular lines
\* 601-606)
DeleteDisabled(id) ==
    IF Granular
      THEN \/ um_deletingUserId = Some(id)
           \/ um_isCreatingUser
           \/ um_isUpdatingRole # Null
           \/ um_currentUserId = Some(id)
      ELSE um_loading \/ um_currentUserId = Some(id)

\* disabled= of the role Select of a row (shared line 508, granular lines
\* 578-582)
RoleSelectDisabled(id) ==
    IF Granular
      THEN um_isUpdatingRole = Some(id) \/ um_deletingUserId # Null \/ um_loading
      ELSE um_loading

\* disabled= of the search input (granular lines 493-497; the shared version
\* never disables it)
SearchDisabled ==
    Granular /\ (um_loading \/ um_isUpdatingRole # Null \/ um_deletingUserId # Null)

\* disabled= of Previous and Next, apart from the page test (shared lines
\* 543 and 553, granular lines 625-631 and 642-648)
PagingDisabled ==
    IF Granular
      THEN um_loading \/ um_isCreatingUser \/ um_isUpdatingRole # Null
              \/ um_deletingUserId # Null
      ELSE um_loading

\* disabled= of the Create New User button (shared line 417, granular 455)
CreateDisabled == IF Granular THEN um_isCreatingUser ELSE um_loading

\* The effect on [currentPage, searchQuery, fetchUsers] (shared lines
\* 165-168, granular 178-180) after a handler asked for (page, query) and
\* left the fetching flag, the error and the operations as given: when the
\* page or the query changed, fetchUsers starts
Requested(page, query, loading, error, pending) ==
    LET changed == page # um_currentPage \/ query # um_searchQuery
    IN  /\ um_currentPage' = page
        /\ um_searchQuery' = query
        /\ um_loading' = IF changed THEN TRUE ELSE loading
        /\ um_error' = IF changed THEN Null ELSE error
        /\ um_pending' = IF changed THEN AddOp(pending, FetchUsersOp(page, query))
                         ELSE pending

\* The effect on [roles, selectedNewUserRole, setValue] (shared lines 74-83, granular 90-98)
DefaultRole(roles, selected) ==
    IF roles # <<>> /\ selected = "" /\ \E k \in 1..Len(roles) : roles[k].name = "user"
      THEN "user"
      ELSE selected

\* A call issued to the backend or to a proxy route
RemoteCall(call, id, role) == [call |-> call, id |-> id, role |-> role]

\* How often a call of this name was issued
CallCount(call) == Cardinality({k \in 1..Len(um_remote) : um_remote[k].call = call})

\* How many role changes, creations and confirmed deletions were started
HandlerRuns ==
    CallCount("update-role") + CallCount("getSession:create")
        + CallCount("getSession:delete")

\* What the fetch of a proxy route can give the handler: an OK response, a
\* non-OK response with or without an error text, or a rejected fetch
ProxyOutcomes == {"ok", "denied", "refused", "network"}

\* The message of the Error the handler catches (shared lines 239-241 and
\* 299-301, granular 260-262 and 322-324)
CaughtMessage(outcome, default) ==
    CASE outcome = "denied" -> "denied"
      [] outcome = "refused" -> default
      [] OTHER -> "fetch failed"

\* the mount effects (shared lines 86-115 and 165-168, granular 100-130 and
\* 178-180): fetchUser, fetchRoles and fetchUsers(currentPage, searchQuery)
\* start, in this order
UsersMount ==
    /\ UsersFrame
    /\ um_location = "/admin"
    /\ ~um_mounted
    /\ um_mounted' = TRUE
    /\ um_loading' = TRUE
    /\ um_error' = Null
    /\ um_pending' = <<FetchUserOp, FetchRolesOp,
                       FetchUsersOp(um_currentPage, um_searchQuery)>>
    /\ UNCHANGED <<um_version, um_location, um_table, um_created, um_remote,
                   um_profiles, um_roles, um_currentUserId, um_isCreatingUser,
                   um_isUpdatingRole, um_deletingUserId, um_success, um_createError,
                   um_createSuccess, um_currentPage, um_totalProfiles, um_searchQuery,
                   um_selectedNewUserRole, um_formResets, um_deleteCalls>>

\* supabase.auth.getUser() answers fetchUser (shared lines 88-94, granular
\* 102-107)
UsersGetUserDone(i, user) ==
    /\ UsersFrame
    /\ Answers(i, "getUser")
    /\ um_currentUserId' = IF ~IsNull(user) THEN user ELSE um_currentUserId
    /\ um_pending' = Without(um_pending, i)
    /\ UNCHANGED <<um_version, um_mounted, um_location, um_table, um_created,
                   um_remote, um_profiles, um_roles, um_loading, um_isCreatingUser,
                   um_isUpdatingRole, um_deletingUserId, um_error, um_success,
                   um_createError, um_createSuccess, um_currentPage, um_totalProfiles,
                   um_searchQuery, um_selectedNewUserRole, um_formResets,
                   um_deleteCalls>>

\* the roles query answers fetchRoles (shared lines 103-112, granular
\* 117-127)
UsersRolesDone(i, error) ==
    /\ UsersFrame
    /\ Answers(i, "roles")
    /\ um_roles' = IF error THEN um_roles ELSE RolesTable
    /\ um_error' = IF error THEN Some("Failed to load roles.") ELSE um_error
    /\ um_selectedNewUserRole' = DefaultRole(um_roles', um_selectedNewUserRole)
    /\ um_loading' = FALSE
    /\ um_pending' = Without(um_pending, i)
    /\ UNCHANGED <<um_version, um_mounted, um_location, um_table, um_created,
                   um_remote, um_profiles, um_currentUserId, um_isCreatingUser,
                   um_isUpdatingRole, um_deletingUserId, um_success, um_createError,
                   um_createSuccess, um_currentPage, um_totalProfiles, um_searchQuery,
                   um_formResets, um_deleteCalls>>

\* the profiles query answers fetchUsers (shared lines 140-160, granular
\* 155-175)
UsersFetchDone(i, error) ==
    /\ UsersFrame
    /\ Answers(i, "users")
    /\ LET res == fetchUsers(um_table, um_pending[i].page, um_pending[i].query, error)
       IN  /\ um_profiles' = res.profiles
           /\ um_totalProfiles' = res.count
           /\ um_error' = IF res.failed THEN Some("Failed to load users.") ELSE um_error
    /\ um_loading' = FALSE
    /\ um_pending' = Without(um_pending, i)
    /\ UNCHANGED <<um_version, um_mounted, um_location, um_table, um_created,
                   um_remote, um_roles, um_currentUserId, um_isCreatingUser,
                   um_isUpdatingRole, um_deletingUserId, um_success, um_createError,
                   um_createSuccess, um_currentPage, um_searchQuery,
                   um_selectedNewUserRole, um_formResets, um_deleteCalls>>

\* handleSearchChange without setCurrentPage(0)
UserSearchKeepsPage(value) ==
    /\ UsersFrame
    /\ UsersRendered
    /\ ~SearchDisabled
    /\ value # um_searchQuery
    /\ Len(um_pending) < MaxUserOps
    /\ Requested(um_currentPage, value, um_loading, um_error, um_pending)
    /\ UNCHANGED <<um_version, um_mounted, um_location, um_table, um_created,
                   um_remote, um_profiles, um_roles, um_currentUserId,
                   um_isCreatingUser, um_isUpdatingRole, um_deletingUserId, um_success,
                   um_createError, um_createSuccess, um_totalProfiles,
                   um_selectedNewUserRole, um_formResets, um_deleteCalls>>

\* handleSearchChange (shared lines 334-338, granular 356-359)
UserSearchChange(value) ==
    /\ UsersFrame
    /\ UsersRendered
    /\ ~SearchDisabled
    /\ value # um_searchQuery
    /\ Len(um_pending) < MaxUserOps
    /\ Requested(0, value, um_loading, um_error, um_pending)
    /\ UNCHANGED <<um_version, um_mounted, um_location, um_table, um_created,
                   um_remote, um_profiles, um_roles, um_currentUserId,
                   um_isCreatingUser, um_isUpdatingRole, um_deletingUserId, um_success,
                   um_createError, um_createSuccess, um_totalProfiles,
                   um_selectedNewUserRole, um_formResets, um_deleteCalls>>

\* goToPreviousPage (shared lines 322-326, granular 344-348) behind the
\* Previous button
UserGoToPreviousPage ==
    /\ UsersFrame
    /\ UsersRendered
    /\ UserTotalPages > 1
    /\ ~(um_currentPage = 0 \/ PagingDisabled)
    /\ Len(um_pending) < MaxUserOps
    /\ IF um_currentPage > 0
         THEN Requested(um_currentPage - 1, um_searchQuery, um_loading, um_error, um_pending)
         ELSE UNCHANGED <<um_currentPage, um_searchQuery, um_loading, um_error, um_pending>>
    /\ UNCHANGED <<um_version, um_mounted, um_location, um_table, um_created,
                   um_remote, um_profiles, um_roles, um_currentUserId,
                   um_isCreatingUser, um_isUpdatingRole, um_deletingUserId, um_success,
                   um_createError, um_createSuccess, um_totalProfiles,
                   um_selectedNewUserRole, um_formResets, um_deleteCalls>>

\* goToNextPage (shared lines 328-332, granular 350-354) behind the Next
\* button
UserGoToNextPage ==
    /\ UsersFrame
    /\ UsersRendered
    /\ UserTotalPages > 1
    /\ ~(um_currentPage = UserTotalPages - 1 \/ PagingDisabled)
    /\ Len(um_pending) < MaxUserOps
    /\ IF um_currentPage < UserTotalPages - 1
         THEN Requested(um_currentPage + 1, um_searchQuery, um_loading, um_error, um_pending)
         ELSE UNCHANGED <<um_currentPage, um_searchQuery, um_loading, um_error, um_pending>>
    /\ UNCHANGED <<um_version, um_mounted, um_location, um_table, um_created,
                   um_remote, um_profiles, um_roles, um_currentUserId,
                   um_isCreatingUser, um_isUpdatingRole, um_deletingUserId, um_success,
                   um_createError, um_createSuccess, um_totalProfiles,
                   um_selectedNewUserRole, um_formResets, um_deleteCalls>>

\* The role names the Select of a row offers (shared lines 514-518)
RoleOffered(name) == \E k \in 1..Len(um_roles) : um_roles[k].name = name

\* The position of a profile among the rows shown
RowOf(id) == (CHOOSE k \in 1..Len(um_profiles) : um_profiles[k].id = id)

\* handleRoleChange (shared lines 170-210, granular 182-229) up to its await
UserRoleChange(profileId, newRoleName) ==
    /\ UsersFrame
    /\ UsersRendered
    /\ profileId \in ShownIds
    /\ ~RoleSelectDisabled(profileId)
    /\ RoleOffered(newRoleName)
    /\ um_profiles[RowOf(profileId)].role # newRoleName
    /\ Len(um_pending) < MaxUserOps
    /\ HandlerRuns < MaxHandlerRuns
    /\ um_error' = IF RoleOffered(newRoleName) THEN Null ELSE Some("Invalid role selected.")
    /\ um_success' = Null
    /\ IF RoleOffered(newRoleName)
         THEN /\ um_loading' = IF Granular THEN um_loading ELSE TRUE
              /\ um_isUpdatingRole' = IF Granular THEN Some(profileId) ELSE um_isUpdatingRole
              /\ um_remote' = Append(um_remote, RemoteCall("update-role", profileId, newRoleName))
              /\ um_pending' = AddOp(um_pending,
                                     Op("roleUpdate", 0, <<>>, profileId, newRoleName, Null))
         ELSE /\ um_loading' = IF Granular THEN um_loading ELSE FALSE
              /\ um_isUpdatingRole' = IF Granular THEN Null ELSE um_isUpdatingRole
              /\ UNCHANGED <<um_remote, um_pending>>
    /\ UNCHANGED <<um_version, um_mounted, um_location, um_table, um_created,
                   um_profiles, um_roles, um_currentUserId, um_isCreatingUser,
                   um_deletingUserId, um_createError, um_createSuccess, um_currentPage,
                   um_totalProfiles, um_searchQuery, um_selectedNewUserRole,
                   um_formResets, um_deleteCalls>>

\* handleRoleChange with the list updated before the answer is looked at
UserRoleUpdateOptimistic(i, error) ==
    /\ UsersFrame
    /\ Answers(i, "roleUpdate")
    /\ LET op == um_pending[i]
       IN  IF error
             THEN /\ um_error' = Some("Failed to update role")
                  /\ um_profiles' = [k \in 1..Len(um_profiles) |->
                                        IF um_profiles[k].id = op.id
                                          THEN [um_profiles[k] EXCEPT !.role = op.role]
                                          ELSE um_profiles[k]]
                  /\ UNCHANGED <<um_table, um_success>>
             ELSE /\ um_table' = [id \in DOMAIN um_table |->
                                     IF id = op.id THEN op.role ELSE um_table[id]]
                  /\ um_profiles' = [k \in 1..Len(um_profiles) |->
                                        IF um_profiles[k].id = op.id
                                          THEN [um_profiles[k] EXCEPT !.role = op.role]
                                          ELSE um_profiles[k]]
                  /\ um_success' = Some("Role updated")
                  /\ UNCHANGED um_error
    /\ um_loading' = IF Granular THEN um_loading ELSE FALSE
    /\ um_isUpdatingRole' = IF Granular THEN Null ELSE um_isUpdatingRole
    /\ um_pending' = Without(um_pending, i)
    /\ UNCHANGED <<um_version, um_mounted, um_location, um_created, um_remote,
                   um_roles, um_currentUserId, um_isCreatingUser, um_deletingUserId,
                   um_createError, um_createSuccess, um_currentPage, um_totalProfiles,
                   um_searchQuery, um_selectedNewUserRole, um_formResets,
                   um_deleteCalls>>

\* the update of profiles.role_id answers handleRoleChange
UserRoleUpdateDone(i, error) ==
    /\ UsersFrame
    /\ Answers(i, "roleUpdate")
    /\ LET op == um_pending[i]
       IN  IF error
             THEN /\ um_error' = Some("Failed to update role")
                  /\ UNCHANGED <<um_table, um_profiles, um_success>>
             ELSE /\ um_table' = [id \in DOMAIN um_table |->
                                     IF id = op.id THEN op.role ELSE um_table[id]]
                  /\ um_profiles' = [k \in 1..Len(um_profiles) |->
                                        IF um_profiles[k].id = op.id
                                          THEN [um_profiles[k] EXCEPT !.role = op.role]
                                          ELSE um_profiles[k]]
                  /\ um_success' = Some("Role updated")
                  /\ UNCHANGED um_error
    /\ um_loading' = IF Granular THEN um_loading ELSE FALSE
    /\ um_isUpdatingRole' = IF Granular THEN Null ELSE um_isUpdatingRole
    /\ um_pending' = Without(um_pending, i)
    /\ UNCHANGED <<um_version, um_mounted, um_location, um_created, um_remote,
                   um_roles, um_currentUserId, um_isCreatingUser, um_deletingUserId,
                   um_createError, um_createSuccess, um_currentPage, um_totalProfiles,
                   um_searchQuery, um_selectedNewUserRole, um_formResets,
                   um_deleteCalls>>

\* The handler's flag goes down: loading (shared), or the flag named
Lowered(flag) ==
    /\ um_loading' = IF Granular THEN um_loading ELSE FALSE
    /\ um_isCreatingUser' = IF Granular /\ flag = "creating" THEN FALSE ELSE um_isCreatingUser
    /\ um_deletingUserId' = IF Granular /\ flag = "deleting" THEN Null ELSE um_deletingUserId

\* handleCreateUser (shared lines 212-257, granular 231-278) up to its first
\* await; the resolver lets only valid data through, with a role of the Select
UserCreateSubmit(roleName) ==
    /\ UsersFrame
    /\ UsersRendered
    /\ ~CreateDisabled
    /\ RoleOffered(roleName)
    /\ Len(um_pending) < MaxUserOps
    /\ HandlerRuns < MaxHandlerRuns
    /\ IF Granular
         THEN /\ um_createError' = Null
              /\ um_createSuccess' = Null
              /\ um_isCreatingUser' = TRUE
              /\ UNCHANGED <<um_error, um_success, um_loading>>
         ELSE /\ um_error' = Null
              /\ um_success' = Null
              /\ um_loading' = TRUE
              /\ UNCHANGED <<um_createError, um_createSuccess, um_isCreatingUser>>
    /\ um_remote' = Append(um_remote, RemoteCall("getSession:create", 0, roleName))
    /\ um_pending' = AddOp(um_pending, Op("createSession", 0, <<>>, 0, roleName, Null))
    /\ UNCHANGED <<um_version, um_mounted, um_location, um_table, um_created,
                   um_profiles, um_roles, um_currentUserId, um_isUpdatingRole,
                   um_deletingUserId, um_currentPage, um_totalProfiles, um_searchQuery,
                   um_selectedNewUserRole, um_formResets, um_deleteCalls>>

\* The catch block of handleCreateUser, then finally
CreateFailed(i, message) ==
    /\ IF Granular
         THEN um_createError' = Some(message) /\ UNCHANGED um_error
         ELSE um_error' = Some(message) /\ UNCHANGED um_createError
    /\ Lowered("creating")
    /\ um_pending' = Without(um_pending, i)
    /\ UNCHANGED <<um_created, um_remote, um_success, um_createSuccess, um_currentPage,
                   um_searchQuery, um_selectedNewUserRole, um_formResets>>

\* getSession answers handleCreateUser; with a session the route is called
UserCreateSessionDone(i, session) ==
    /\ UsersFrame
    /\ Answers(i, "createSession")
    /\ IF session
         THEN /\ um_remote' = Append(um_remote,
                                     RemoteCall("create-user", 0, um_pending[i].role))
              /\ um_pending' = AddOp(Without(um_pending, i),
                                     [um_pending[i] EXCEPT !.kind = "createFetch"])
              /\ UNCHANGED <<um_created, um_loading, um_isCreatingUser, um_deletingUserId,
                             um_error, um_success, um_createError, um_createSuccess,
                             um_currentPage, um_searchQuery, um_selectedNewUserRole,
                             um_formResets>>
         ELSE CreateFailed(i, "No active session. Please log in.")
    /\ UNCHANGED <<um_version, um_mounted, um_location, um_table, um_profiles,
                   um_roles, um_currentUserId, um_isUpdatingRole, um_totalProfiles,
                   um_deleteCalls>>

\* the create-user route answers handleCreateUser
UserCreateFetchDone(i, outcome) ==
    /\ UsersFrame
    /\ Answers(i, "createFetch")
    /\ IF outcome = "ok"
         THEN /\ um_created' = um_created + 1
              /\ IF Granular
                   THEN /\ um_createSuccess' = Some("User created")
                        /\ UNCHANGED um_success
                   ELSE /\ um_success' = Some("User created")
                        /\ UNCHANGED um_createSuccess
              /\ um_formResets' = um_formResets + 1
              /\ um_selectedNewUserRole' = DefaultRole(um_roles, "")
              /\ um_isCreatingUser' = FALSE
              /\ Requested(0, <<>>, IF Granular THEN um_loading ELSE FALSE, um_error,
                           Without(um_pending, i))
              /\ UNCHANGED <<um_remote, um_createError, um_deletingUserId>>
         ELSE CreateFailed(i, CaughtMessage(outcome, "Failed to create user via admin."))
    /\ UNCHANGED <<um_version, um_mounted, um_location, um_table, um_profiles,
                   um_roles, um_currentUserId, um_isUpdatingRole, um_totalProfiles,
                   um_deleteCalls>>

\* handleDeleteUser of part_006 without setDeletingUserId(null) before the
\* early return
UserDeleteClickKeepsFlag(userIdToDelete, confirmed) ==
    /\ UsersFrame
    /\ UsersRendered
    /\ userIdToDelete \in ShownIds
    /\ ~DeleteDisabled(userIdToDelete)
    /\ Len(um_pending) < MaxUserOps
    /\ confirmed => HandlerRuns < MaxHandlerRuns
    /\ um_deleteCalls' = um_deleteCalls \cup {userIdToDelete}
    /\ um_error' = Null
    /\ um_success' = Null
    /\ IF confirmed
         THEN /\ um_loading' = IF Granular THEN um_loading ELSE TRUE
              /\ um_deletingUserId' = IF Granular THEN Some(userIdToDelete)
                                      ELSE um_deletingUserId
              /\ um_remote' = Append(um_remote,
                                     RemoteCall("getSession:delete", userIdToDelete, ""))
              /\ um_pending' = AddOp(um_pending,
                                     Op("deleteSession", 0, <<>>, userIdToDelete, "",
                                        um_currentUserId))
         ELSE /\ um_deletingUserId' = IF Granular THEN Some(userIdToDelete)
                                      ELSE um_deletingUserId
              /\ UNCHANGED <<um_loading, um_remote, um_pending>>
    /\ UNCHANGED <<um_version, um_mounted, um_location, um_table, um_created,
                   um_profiles, um_roles, um_currentUserId, um_isCreatingUser,
                   um_isUpdatingRole, um_createError, um_createSuccess, um_currentPage,
                   um_totalProfiles, um_searchQuery, um_selectedNewUserRole,
                   um_formResets>>

\* handleDeleteUser (shared lines 259-302, granular 280-333) behind the
\* Delete button of a row, up to its first await; confirm() blocks
UserDeleteClick(userIdToDelete, confirmed) ==
    /\ UsersFrame
    /\ UsersRendered
    /\ userIdToDelete \in ShownIds
    /\ ~DeleteDisabled(userIdToDelete)
    /\ Len(um_pending) < MaxUserOps
    /\ confirmed => HandlerRuns < MaxHandlerRuns
    /\ um_deleteCalls' = um_deleteCalls \cup {userIdToDelete}
    /\ um_error' = Null
    /\ um_success' = Null
    /\ IF confirmed
         THEN /\ um_loading' = IF Granular THEN um_loading ELSE TRUE
              /\ um_deletingUserId' = IF Granular THEN Some(userIdToDelete)
                                      ELSE um_deletingUserId
              /\ um_remote' = Append(um_remote,
                                     RemoteCall("getSession:delete", userIdToDelete, ""))
              /\ um_pending' = AddOp(um_pending,
                                     Op("deleteSession", 0, <<>>, userIdToDelete, "",
                                        um_currentUserId))
         ELSE /\ um_deletingUserId' = IF Granular THEN Null ELSE um_deletingUserId
              /\ UNCHANGED <<um_loading, um_remote, um_pending>>
    /\ UNCHANGED <<um_version, um_mounted, um_location, um_table, um_created,
                   um_profiles, um_roles, um_currentUserId, um_isCreatingUser,
                   um_isUpdatingRole, um_createError, um_createSuccess, um_currentPage,
                   um_totalProfiles, um_searchQuery, um_selectedNewUserRole,
                   um_formResets>>

\* The catch block of handleDeleteUser, then finally
DeleteFailed(i, message) ==
    /\ um_error' = Some(message)
    /\ Lowered("deleting")
    /\ um_pending' = Without(um_pending, i)
    /\ UNCHANGED <<um_table, um_remote, um_success, um_currentPage, um_searchQuery>>

\* getSession answers handleDeleteUser; with a session the route is called
UserDeleteSessionDone(i, session) ==
    /\ UsersFrame
    /\ Answers(i, "deleteSession")
    /\ IF session
         THEN /\ um_remote' = Append(um_remote,
                                     RemoteCall("delete-user", um_pending[i].id, ""))
              /\ um_pending' = AddOp(Without(um_pending, i),
                                     [um_pending[i] EXCEPT !.kind = "deleteFetch"])
              /\ UNCHANGED <<um_table, um_loading, um_isCreatingUser, um_deletingUserId,
                             um_error, um_success, um_currentPage, um_searchQuery>>
         ELSE DeleteFailed(i, "No active session. Please log in.")
    /\ UNCHANGED <<um_version, um_mounted, um_location, um_created, um_profiles,
                   um_roles, um_currentUserId, um_isUpdatingRole, um_createError,
                   um_createSuccess, um_totalProfiles, um_selectedNewUserRole,
                   um_formResets, um_deleteCalls>>

\* the delete-user route answers handleDeleteUser; after deleting the own
\* account the handler awaits signOut(), and when that has answered sets
\* window.location.href = "/"; finally ends both
UserDeleteFetchDone(i, outcome) ==
    /\ UsersFrame
    /\ Answers(i, "deleteFetch") \/ (Answers(i, "signOut") /\ outcome = "ok")
    /\ LET op == um_pending[i]
           self == op.me = Some(op.id)
       IN  IF op.kind = "signOut"
             THEN /\ um_location' = "/"
                  /\ Lowered("deleting")
                  /\ um_pending' = Without(um_pending, i)
                  /\ UNCHANGED <<um_table, um_remote, um_error, um_success,
                                 um_currentPage, um_searchQuery>>
           ELSE IF outcome = "ok"
             THEN /\ um_table' = [id \in DOMAIN um_table \ {op.id} |-> um_table[id]]
                  /\ um_success' = Some("User deleted")
                  /\ um_remote' = IF self THEN Append(um_remote, RemoteCall("signOut", 0, ""))
                                  ELSE um_remote
                  /\ um_deletingUserId' = IF Granular /\ ~self THEN Null
                                          ELSE um_deletingUserId
                  /\ Requested(0, <<>>,
                               IF Granular \/ self THEN um_loading ELSE FALSE,
                               um_error,
                               IF self
                                 THEN AddOp(Without(um_pending, i),
                                            [um_pending[i] EXCEPT !.kind = "signOut"])
                                 ELSE Without(um_pending, i))
                  /\ UNCHANGED <<um_isCreatingUser, um_location>>
             ELSE /\ DeleteFailed(i, CaughtMessage(outcome, "Failed to delete user."))
                  /\ UNCHANGED um_location
    /\ UNCHANGED <<um_version, um_mounted, um_created, um_profiles,
                   um_roles, um_currentUserId, um_isUpdatingRole, um_createError,
                   um_createSuccess, um_totalProfiles, um_selectedNewUserRole,
                   um_formResets, um_deleteCalls>>

\* The component as the admin page constructs it (shared lines 46-58,
\* granular 47-78) from getUsersData(0, ""), whose query failed or not
UsersConstructedAt(version, serverError, location) ==
    /\ um_version = version
    /\ um_mounted = FALSE
    /\ um_location = location
    /\ um_table = InitialProfilesTable
    /\ um_created = 0
    /\ um_remote = <<>>
    /\ LET res == fetchUsers(InitialProfilesTable, 0, <<>>, serverError)
       IN  um_profiles = res.profiles /\ um_totalProfiles = res.count
    /\ um_roles = <<>>
    /\ um_currentUserId = Null
    /\ um_loading = (version = "granular")
    /\ um_isCreatingUser = FALSE
    /\ um_isUpdatingRole = Null
    /\ um_deletingUserId = Null
    /\ um_error = Null
    /\ um_success = Null
    /\ um_createError = Null
    /\ um_createSuccess = Null
    /\ um_currentPage = 0
    /\ um_searchQuery = <<>>
    /\ um_selectedNewUserRole = ""
    /\ um_formResets = 0
    /\ um_pending = <<>>
    /\ um_deleteCalls = {}

UsersConstructed(version, serverError) ==
    UsersConstructedAt(version, serverError, "/admin")

UsersIdle == UsersConstructed("shared", FALSE)

(* C18: in the user manager, the Delete button of the signed-in admin's own
   profile row is disabled in every reachable state, including before the
   lookup of the current user id has completed, so handleDeleteUser is never
   invoked with the current user's id. *)
C18_OwnDeleteDisabled ==
    /\ (UsersRendered /\ OwnId \in ShownIds) => DeleteDisabled(OwnId)
    /\ OwnId \notin um_deleteCalls

\* a roles fetch or a user-list fetch awaits its answer
FetchInFlight ==
    \E k \in 1..Len(um_pending) : um_pending[k].kind \in {"roles", "users"}

(* C19: in the user manager, whenever a roles fetch or a user-list fetch is
   in flight the fetching flag (isFetchingUsers; the shared loading flag in
   the earlier version) is true, so that the controls it gates stay disabled
   until every outstanding fetch has completed; the flag is false once no
   request is in flight. *)
C19_FlagCoversFetches ==
    (um_mounted /\ um_location = "/admin") =>
        /\ FetchInFlight => um_loading
        /\ um_pending = <<>> => ~um_loading

-----------------------------------------------------------------------------
(***************************************************************************)
(* components/tree-detail-client.tsx: TreeDetailClient.handleDelete        *)
(***************************************************************************)

DetailFrame ==
    UNCHANGED <<adminVars, pageVars, dashVars, searchVars, formVars, proxyVars, seedVars,
                userVars, pagingVars>>

\* Images of the tree shown
MaxDetailImages == 2

\* Confirmed runs of handleDelete on one page
MaxDeleteAttempts == 2

\* The trees the page can show: tree t1 of user u1 with the images uploaded
\* under these file names, one upload per timestamp
DetailTree(names) ==
    [id |-> TreeIdText(1),
     user_id |-> FormUserId,
     tree_images |-> [k \in 1..Len(names) |->
                         getPublicUrl(uploadPath(FormUserId, TreeIdText(1), k, names[k]))]]

DetailTrees ==
    {DetailTree(names) : names \in UNION {[1..n -> FileNames] : n \in 0..MaxDetailImages}}

\* The objects that were uploaded for the images of the tree
DetailObjects(names) ==
    {uploadPath(FormUserId, TreeIdText(1), k, names[k]) : k \in 1..Len(names)}

\* What storage.remove([path]) can give: the object removed, an answer with
\* an error (which the handler does not look at), or a rejected promise
RemoveOutcomes == {"removed", "error", "rejected"}

\* The earlier component (part_005 lines 89-99) renders the Delete button
\* for every tree and every viewer, disabled only by loading
AlwaysRendered(tree) == tree.id = tree.id

\* The Delete control is in the page: under isAdmin in the image branch of
\* tree-detail-client.tsx (lines 153-218), or unconditionally in part_005
DeleteControlShown ==
    /\ td_route = "/trees/[id]"
    /\ \/ EditDeleteControls(td_tree, td_isAdmin)
       \/ AlwaysRendered(td_tree)

\* the removals of this run of handleDelete that have not answered
Awaited(waiting) == {w \in waiting : w.attempt = td_attempt}

\* catch and finally of handleDelete (lines 63-68)
DetailFailed ==
    /\ td_alerts' = td_alerts + 1
    /\ td_loading' = FALSE
    /\ td_pc' = "idle"

\* handleDelete (lines 35-54) behind the Delete button, up to
\* await Promise.all(deletePromises); confirm() blocks
DetailDeleteClick(confirmed) ==
    /\ DetailFrame
    /\ DeleteControlShown
    /\ ~td_loading
    /\ td_attempt < MaxDeleteAttempts
    /\ IF ~confirmed
         THEN UNCHANGED <<td_pc, td_loading, td_attempt, td_waiting, td_calls>>
         ELSE LET images == td_tree.tree_images
              IN  /\ td_loading' = TRUE
                  /\ td_attempt' = td_attempt + 1
                  /\ td_calls' = td_calls \o
                        [k \in 1..Len(images) |->
                            [call |-> "remove", arg |-> cleanupPath(images[k]),
                             attempt |-> td_attempt + 1]]
                  /\ td_waiting' = td_waiting \cup
                        {[attempt |-> td_attempt + 1, image |-> k] : k \in 1..Len(images)}
                  /\ td_pc' = "removing"
    /\ UNCHANGED <<td_tree, td_isAdmin, td_storage, td_rowExists, td_route, td_alerts>>

\* one storage removal answers; when it was the last one of the run that is
\* awaited, the row delete is issued (lines 54-56); a rejection ends the run
\* in the catch block at once
DetailRemoveAnswered(w, outcome) ==
    /\ DetailFrame
    /\ w \in td_waiting
    /\ td_waiting' = td_waiting \ {w}
    /\ td_storage' = IF outcome = "removed"
                       THEN td_storage \ {cleanupPath(td_tree.tree_images[w.image])}
                       ELSE td_storage
    /\ IF td_pc = "removing" /\ w.attempt = td_attempt /\ td_route = "/trees/[id]"
         THEN IF outcome = "rejected"
                THEN DetailFailed /\ UNCHANGED td_calls
              ELSE IF Awaited(td_waiting') = {}
                THEN /\ td_calls' = Append(td_calls,
                                           [call |-> "delete", arg |-> td_tree.id,
                                            attempt |-> td_attempt])
                     /\ td_pc' = "deleting"
                     /\ UNCHANGED <<td_loading, td_alerts>>
              ELSE UNCHANGED <<td_calls, td_pc, td_loading, td_alerts>>
         ELSE UNCHANGED <<td_calls, td_pc, td_loading, td_alerts>>
    /\ UNCHANGED <<td_tree, td_isAdmin, td_attempt, td_rowExists, td_route>>

\* the delete of the tree row answers (lines 56-68)
DetailRowDeleteNavigates(error) ==
    /\ DetailFrame
    /\ td_pc = "deleting"
    /\ IF error
         THEN /\ DetailFailed
              /\ td_route' = "/dashboard"
              /\ UNCHANGED td_rowExists
         ELSE /\ td_rowExists' = FALSE
              /\ td_route' = "/dashboard"
              /\ td_loading' = FALSE
              /\ td_pc' = "idle"
              /\ UNCHANGED td_alerts
    /\ UNCHANGED <<td_tree, td_isAdmin, td_attempt, td_waiting, td_calls, td_storage>>

DetailRowDeleteAnswered(error) ==
    /\ DetailFrame
    /\ td_pc = "deleting"
    /\ IF error
         THEN /\ DetailFailed
              /\ UNCHANGED <<td_rowExists, td_route>>
         ELSE /\ td_rowExists' = FALSE
              /\ td_route' = "/dashboard"
              /\ td_loading' = FALSE
              /\ td_pc' = "idle"
              /\ UNCHANGED td_alerts
    /\ UNCHANGED <<td_tree, td_isAdmin, td_attempt, td_waiting, td_calls, td_storage>>

\* The component as the detail page constructs it (lines 30-33)
DetailConstructedAt(names, isAdmin, route) ==
    /\ td_tree = DetailTree(names)
    /\ td_isAdmin = isAdmin
    /\ td_pc = "idle"
    /\ td_loading = FALSE
    /\ td_attempt = 0
    /\ td_waiting = {}
    /\ td_calls = <<>>
    /\ td_storage = DetailObjects(names)
    /\ td_rowExists = TRUE
    /\ td_route = route
    /\ td_alerts = 0

DetailConstructed(names, isAdmin) == DetailConstructedAt(names, isAdmin, "/trees/[id]")

DetailIdle == DetailConstructed(<<>>, FALSE)

\* the call issued by this step, if it is the delete of the tree row
RowDeleteIssued ==
    /\ Len(td_calls') = Len(td_calls) + 1
    /\ td_calls'[Len(td_calls')].call = "delete"

(* C20: TreeDetailClient.handleDelete: after the user confirms, the removal
   of every image object from storage is issued and awaited before the tree
   row delete is issued; navigation to /dashboard happens only after the row
   delete succeeded; if the row delete fails an alert is shown and no
   navigation occurs; loading is false once the handler finishes. *)
C20_DeleteOrder ==
    /\ [][RowDeleteIssued =>
             /\ \A k \in 1..Len(td_tree.tree_images) :
                   /\ \E c \in 1..Len(td_calls) :
                         /\ td_calls[c].call = "remove"
                         /\ td_calls[c].attempt = td_attempt
                         /\ td_calls[c].arg = cleanupPath(td_tree.tree_images[k])
                   /\ [attempt |-> td_attempt, image |-> k] \notin td_waiting'
             /\ td_calls'[Len(td_calls')].arg = td_tree.id]_vars
    /\ [][td_route' # td_route =>
             /\ td_route' = "/dashboard"
             /\ DetailRowDeleteAnswered(FALSE)
             /\ td_rowExists /\ ~td_rowExists']_vars
    /\ [][DetailRowDeleteAnswered(TRUE) =>
             /\ td_alerts' = td_alerts + 1
             /\ td_route' = "/trees/[id]"
             /\ td_rowExists']_vars
    /\ [](td_pc = "idle" => ~td_loading)
    /\ [][td_pc # "idle" /\ td_pc' = "idle" => ~td_loading']_vars

\* the row delete of a confirmed run failed: the alert was shown and the
\* page is still the detail page, after every removal had answered
C20_Witness ==
    /\ td_alerts > 0
    /\ td_pc = "idle"
    /\ ~td_loading
    /\ td_route = "/trees/[id]"
    /\ td_rowExists
    /\ td_waiting = {}
    /\ Len(td_tree.tree_images) = MaxDetailImages
    /\ \E c \in 1..Len(td_calls) : td_calls[c].call = "delete"


\* the step issues the update of a profile's role_id
RoleUpdateIssued ==
    /\ Len(um_remote') = Len(um_remote) + 1
    /\ um_remote'[Len(um_remote')].call = "update-role"

\* the flag handleRoleChange raises is down after the step
RoleFlagCleared ==
    IF Granular THEN um_isUpdatingRole' = Null ELSE ~um_loading'

(* C22: handleRoleChange: the local profile list changes only after the
   remote role update succeeded, and then only the targeted profile's role
   changes while every other profile is unchanged; if the chosen role name is
   not among the loaded roles no remote update is issued; on a remote error
   the list is unchanged and an error message is set; the updating flag is
   cleared in every case. *)
C22_RoleChangeFrame ==
    /\ [][\A profileId \in TargetIds, newRoleName \in RoleNames :
             UserRoleChange(profileId, newRoleName) => um_profiles' = um_profiles]_vars
    /\ [][RoleUpdateIssued => RoleOffered(um_remote'[Len(um_remote')].role)]_vars
    /\ [][\A i \in 1..MaxUserOps :
             UserRoleUpdateDone(i, FALSE) =>
                /\ Len(um_profiles') = Len(um_profiles)
                /\ \A k \in 1..Len(um_profiles) :
                      IF um_profiles[k].id = um_pending[i].id
                        THEN /\ um_profiles'[k].id = um_profiles[k].id
                             /\ um_profiles'[k].role = um_pending[i].role
                        ELSE um_profiles'[k] = um_profiles[k]
                /\ RoleFlagCleared]_vars
    /\ [][\A i \in 1..MaxUserOps :
             UserRoleUpdateDone(i, TRUE) =>
                /\ um_profiles' = um_profiles
                /\ um_error' # Null
                /\ RoleFlagCleared]_vars

\* the role of the second profile was changed to admin: the row shows it,
\* the other rows are as fetched, and no flag is left up
C22_Witness ==
    /\ um_success = Some("Role updated")
    /\ um_pending = <<>>
    /\ ~um_loading
    /\ um_isUpdatingRole = Null
    /\ Len(um_profiles) = ADMIN_PAGE_SIZE
    /\ \A k \in 1..Len(um_profiles) :
          um_profiles[k].role = (IF um_profiles[k].id \in {OwnId, 2} THEN "admin" ELSE "user")

\* the user-list fetches in flight among the operations
UserFetches(pending) ==
    Cardinality({k \in 1..Len(pending) : pending[k].kind = "users"})

\* the flag handleCreateUser raises is down after the step
CreateFlagCleared ==
    IF Granular THEN ~um_isCreatingUser' ELSE ~um_loading'

\* the step is the catch block of handleCreateUser: no session, a response
\* that is not OK, or a fetch that threw
CreateUserFails ==
    \E i \in 1..MaxUserOps :
        \/ UserCreateSessionDone(i, FALSE)
        \/ \E outcome \in ProxyOutcomes \ {"ok"} : UserCreateFetchDone(i, outcome)

(* C23: handleCreateUser: on success the new-user form is reset, currentPage
   becomes 0 and searchQuery becomes empty, which triggers a re-fetch of the
   user list; on any failure (no active session, non-OK response, thrown
   error) no request state is changed: currentPage, searchQuery and the
   profile list are unchanged and an error message is set. In both cases the
   creating flag returns to false. *)
C23_CreateUserOutcome ==
    /\ [][(\E i \in 1..MaxUserOps : UserCreateFetchDone(i, "ok")) =>
             /\ um_formResets' = um_formResets + 1
             /\ um_currentPage' = 0
             /\ um_searchQuery' = <<>>
             /\ UserFetches(um_pending') = UserFetches(um_pending) + 1
             /\ \E k \in 1..Len(um_pending') : um_pending'[k] = FetchUsersOp(0, <<>>)
             /\ um_isCreatingUser' = FALSE]_vars
    /\ [][CreateUserFails =>
             /\ um_currentPage' = um_currentPage
             /\ um_searchQuery' = um_searchQuery
             /\ um_profiles' = um_profiles
             /\ UserFetches(um_pending') = UserFetches(um_pending)
             /\ (IF Granular THEN um_createError' ELSE um_error') # Null
             /\ CreateFlagCleared]_vars


(* C24: in both the dashboard and the user manager, every edit of the search
   box sets currentPage to 0 together with the new searchQuery, so a fetch
   for a new query is never issued with the page index that belonged to the
   previous query. *)
C24_SearchResetsPage ==
    /\ [][dash_searchQuery' # dash_searchQuery => dash_currentPage' = 0]_vars
    /\ [][Len(dash_handlers') = Len(dash_handlers) + 1 =>
             /\ dash_handlers'[Len(dash_handlers')].page = dash_currentPage'
             /\ dash_handlers'[Len(dash_handlers')].query = dash_searchQuery']_vars
    /\ [][um_searchQuery' # um_searchQuery => um_currentPage' = 0]_vars
    /\ [][UserFetches(um_pending') = UserFetches(um_pending) + 1 =>
             LET issued == FetchUsersOp(um_currentPage', um_searchQuery')
                 copies(pending) ==
                     Cardinality({k \in 1..Len(pending) : pending[k] = issued})
             IN  copies(um_pending') = copies(um_pending) + 1]_vars

\* the search box of the user manager was edited on the second page while
\* the fetch of that page was in flight: the fetch for the new text asks for
\* page 0
C24_Witness ==
    /\ um_currentPage = 0
    /\ um_searchQuery = <<"a">>
    /\ \E k \in 1..Len(um_pending) : um_pending[k] = FetchUsersOp(1, <<>>)
    /\ \E k \in 1..Len(um_pending) : um_pending[k] = FetchUsersOp(0, <<"a">>)

\* the same on the dashboard
DashSearchOnLaterPage ==
    /\ dash_currentPage = 0
    /\ dash_searchQuery # <<>>
    /\ \E k \in 1..Len(dash_handlers) :
          dash_handlers[k].page > 0 /\ dash_handlers[k].query = <<>>
    /\ \E k \in 1..Len(dash_handlers) :
          dash_handlers[k].page = 0 /\ dash_handlers[k].query = dash_searchQuery


(* C25: if the user declines the confirmation dialog, handleDelete (tree)
   and handleDeleteUser (user) issue no remote call, change no tree or
   profile data and no page or search state, and leave no loading or
   deleting flag set. *)
C25_DeclinedDeleteChangesNothing ==
    /\ [][DetailDeleteClick(FALSE) =>
             /\ td_calls' = td_calls
             /\ td_waiting' = td_waiting
             /\ td_tree' = td_tree
             /\ td_storage' = td_storage
             /\ td_rowExists' = td_rowExists
             /\ td_route' = td_route
             /\ ~td_loading']_vars
    /\ [][\A userIdToDelete \in TargetIds :
             UserDeleteClick(userIdToDelete, FALSE) =>
                /\ um_remote' = um_remote
                /\ um_pending' = um_pending
                /\ um_table' = um_table
                /\ um_profiles' = um_profiles
                /\ um_totalProfiles' = um_totalProfiles
                /\ um_currentPage' = um_currentPage
                /\ um_searchQuery' = um_searchQuery
                /\ um_location' = um_location
                /\ IF Granular THEN um_deletingUserId' = Null ELSE ~um_loading']_vars

\* the admin clicked Delete on the second profile and declined: no session
\* was asked for, the rows are as fetched and no deletion is marked
C25_Witness ==
    /\ Granular
    /\ 2 \in um_deleteCalls
    /\ CallCount("getSession:delete") = 0
    /\ um_deletingUserId = Null
    /\ um_pending = <<>>
    /\ Len(um_profiles) = ADMIN_PAGE_SIZE
    /\ um_table = InitialProfilesTable

\* what the route must have passed to the remote function for the request
Forwarded ==
    /\ ~IsNull(px_forwarded)
    /\ Get(px_forwarded).url = edgeFunctionUrl(px_route)
    /\ Get(px_forwarded).Authorization = (IF IsNull(px_auth) THEN "" ELSE Get(px_auth))
    /\ Get(px_forwarded).body = px_request.fields \cap RouteFields(px_route)

\* the remote function is called at most once for a request, when the body
\* has been read
ForwardedOnce ==
    [][px_forwarded' # px_forwarded =>
          \/ IsNull(px_forwarded') /\ px_pc' = "reading"
          \/ IsNull(px_forwarded) /\ px_pc = "reading" /\ px_pc' = "fetching"]_vars

\* a 401 of the route is the 401 of the remote function
NeverRejectsItself ==
    \A k \in 1..Len(px_responses) :
        px_responses[k].status = 401 =>
            ~IsNull(px_reply) /\ Get(px_reply).status = 401

(* C26, as stated: each proxy route forwards every request whose body
   parses as JSON to the remote function exactly once, passing the caller's
   Authorization header verbatim (an empty string when the header is absent)
   and only the expected body fields (email, password, roleName; userId);
   the route itself never rejects a request for missing or insufficient
   credentials. *)
C26_ForwardsEveryJsonBody ==
    /\ []((px_pc \in {"fetching", "done"} /\ px_request.kind # "invalid") => Forwarded)
    /\ ForwardedOnce
    /\ []NeverRejectsItself

(* C26, amended: each proxy route forwards every request whose body parses
   as a JSON value other than null to the remote function exactly once, with
   the Authorization header and the body fields as stated; a body that is
   JSON null is answered with status 500 and is not forwarded. *)
C26_ForwardsNonNullJsonBody ==
    /\ []((px_pc \in {"fetching", "done"} /\ px_request.kind \notin {"invalid", "null"})
             => Forwarded)
    /\ []((px_pc = "done" /\ px_request.kind \in {"invalid", "null"}) =>
             /\ IsNull(px_forwarded)
             /\ Len(px_responses) = 1
             /\ px_responses[1].status = 500)
    /\ ForwardedOnce
    /\ []NeverRejectsItself

\* a delete-user request without Authorization header and with a field the
\* route does not expect was forwarded, and the remote function said 401
C26_Witness ==
    /\ px_pc = "done"
    /\ px_route = "delete-user"
    /\ px_auth = Null
    /\ px_request = [kind |-> "object", fields |-> {"userId", "extra"}]
    /\ ~IsNull(px_forwarded)
    /\ Get(px_forwarded).Authorization = ""
    /\ Get(px_forwarded).body = {"userId"}
    /\ ~IsNull(px_reply)
    /\ Get(px_reply).status = 401
    /\ px_responses[1].status = 401

-----------------------------------------------------------------------------
(***************************************************************************)
(* Paging of a list: the requested row ranges (fetchTrees, fetchUsers) and *)
(* the page-number buttons, for any count and page size                    *)
(***************************************************************************)

PagingFrame ==
    UNCHANGED <<adminVars, pageVars, dashVars, searchVars, formVars, proxyVars, seedVars,
                userVars, detailVars>>

MaxCount == 25
MaxPages == 8

\* The page sizes: small ones, and the two of the components
PageSizes == (1..3) \cup {ADMIN_PAGE_SIZE, PAGE_SIZE}

\* Math.ceil(total / pageSize) (dashboard line 140, user manager line 342)
PagingTotalPages == Ceil(pn_count, pn_pageSize)

\* The page-number buttons (lines 335, 369-380): none unless totalPages > 1,
\* else Array.from({ length: Math.min(totalPages, 5) }, (_, i) => pageNum)
PageButtons(currentPage, totalPages) ==
    IF totalPages > 1
      THEN [k \in 1..Min(totalPages, 5) |-> PageNum(k - 1, currentPage, totalPages)]
      ELSE <<>>

\* .range(from, to) of the fetch of a page (fetchTrees lines 32-33 and 52,
\* fetchUsers lines 137-138 and 162)
RequestedRange(page) ==
    [page |-> page,
     from |-> RangeFrom(page, pn_pageSize),
     to |-> RangeTo(page, pn_pageSize)]

\* A list with a count of rows at its first page: the first render and the
\* fetch of the mount effect
PagingConstructed(count, pageSize) ==
    /\ pn_count = count
    /\ pn_pageSize = pageSize
    /\ pn_currentPage = 0
    /\ pn_buttons = PageButtons(0, Ceil(count, pageSize))
    /\ pn_requested = {[page |-> 0, from |-> RangeFrom(0, pageSize),
                        to |-> RangeTo(0, pageSize)]}

PagingIdle ==
    /\ pn_count = 0
    /\ pn_pageSize = PAGE_SIZE
    /\ pn_currentPage = 0
    /\ pn_buttons = <<>>
    /\ pn_requested = {}

\* setCurrentPage(page): the effect fetches the page, the buttons render anew
PagingSetCurrentPage(page) ==
    /\ pn_currentPage' = page
    /\ pn_buttons' = PageButtons(page, PagingTotalPages)
    /\ pn_requested' = pn_requested \cup {RequestedRange(page)}
    /\ UNCHANGED <<pn_count, pn_pageSize>>

\* goToPreviousPage (lines 142-146), the button disabled at page 0
PagingGoToPreviousPage ==
    /\ PagingFrame
    /\ PagingTotalPages > 1
    /\ pn_currentPage # 0
    /\ pn_currentPage > 0
    /\ PagingSetCurrentPage(pn_currentPage - 1)

\* goToNextPage (lines 148-152), the button disabled at the last page
PagingGoToNextPage ==
    /\ PagingFrame
    /\ PagingTotalPages > 1
    /\ pn_currentPage # PagingTotalPages - 1
    /\ pn_currentPage < PagingTotalPages - 1
    /\ PagingSetCurrentPage(pn_currentPage + 1)

\* The k-th page-number button rendered (lines 381-395):
\* setCurrentPage(pageNum)
PagingPageNumberClick(k) ==
    /\ PagingFrame
    /\ k \in 1..5
    /\ k <= Len(pn_buttons)
    /\ pn_buttons[k] # pn_currentPage
    /\ PagingSetCurrentPage(pn_buttons[k])

\* The row indices of a requested range
RangeIndices(r) == r.from .. r.to

\* C27: with two pages or more and the current page among the pages, the
\* page-number buttons show min(totalPages, 5) distinct consecutive page
\* indices, all of them pages of the list, and the current page is one of
\* them
C27_PageButtonsWindow ==
    (PagingTotalPages >= 2 /\ pn_currentPage \in 0..(PagingTotalPages - 1)) =>
        /\ Len(pn_buttons) = Min(PagingTotalPages, 5)
        /\ \A k \in 1..(Len(pn_buttons) - 1) : pn_buttons[k + 1] = pn_buttons[k] + 1
        /\ Cardinality({pn_buttons[k] : k \in 1..Len(pn_buttons)}) = Len(pn_buttons)
        /\ \A k \in 1..Len(pn_buttons) : pn_buttons[k] \in 0..(PagingTotalPages - 1)
        /\ \E k \in 1..Len(pn_buttons) : pn_buttons[k] = pn_currentPage

\* more than five pages, the last one current: the buttons are the last five
C27_Witness ==
    /\ PagingTotalPages > 5
    /\ pn_currentPage = PagingTotalPages - 1
    /\ pn_buttons = [k \in 1..5 |-> PagingTotalPages - 6 + k]

\* C28: every requested range is [page*size, page*size + size - 1] and holds
\* exactly size indices; the ranges of different pages are disjoint; and once
\* every page 0..ceil(count/size)-1 was requested, every row index
\* 0..count-1 lies in exactly one of the ranges
C28_RangesPartitionRows ==
    /\ \A r \in pn_requested :
          /\ r.from = r.page * pn_pageSize
          /\ r.to = r.page * pn_pageSize + pn_pageSize - 1
          /\ Cardinality(RangeIndices(r)) = pn_pageSize
    /\ \A r1, r2 \in pn_requested :
          r1.page # r2.page => RangeIndices(r1) \cap RangeIndices(r2) = {}
    /\ ({r.page : r \in pn_requested} = 0..(PagingTotalPages - 1)) =>
          \A row \in 0..(pn_count - 1) :
              Cardinality({r \in pn_requested : row \in RangeIndices(r)}) = 1

\* every page of a list of three pages or more was requested, the last page
\* not full
C28_Witness ==
    /\ pn_count >= 1
    /\ PagingTotalPages >= 3
    /\ pn_count % pn_pageSize # 0
    /\ {r.page : r \in pn_requested} = 0..(PagingTotalPages - 1)

-----------------------------------------------------------------------------
(***************************************************************************)
(* Specifications: one per component; the other components stay idle       *)
(***************************************************************************)

InitAdmin == AdminIdle /\ PagesIdle /\ DashIdle /\ SearchIdle /\ FormIdle /\ ProxyIdle /\ PagingIdle /\ DetailIdle /\ UsersIdle /\ SeedIdle

NextAdmin ==
    \/ \E page \in 0..MaxPage, search \in {"", "a"} : AdminPageRequest(page, search)
    \/ \E res \in AuthResults : AdminGetUser(res)
    \/ \E res \in ProfileResults : AdminProfileLookup(res)
    \/ \E error \in BOOLEAN, count \in 0..MaxProfiles : AdminListQuery(error, count)
    \/ AdminPageDone

SpecAdmin == InitAdmin /\ [][NextAdmin]_vars

InitPages == AdminIdle /\ PagesIdle /\ DashIdle /\ SearchIdle /\ FormIdle /\ ProxyIdle /\ PagingIdle /\ DetailIdle /\ UsersIdle /\ SeedIdle

NextPages ==
    \/ \E viewer \in Viewers : NewTreePage(viewer)
    \/ \E n \in 0..MaxImages, insertError \in BOOLEAN : NewTreeSubmit(n, insertError)
    \/ \E viewer \in Viewers, id \in TreeIds : EditTreePage(viewer, id)
    \/ EditGetUser
    \/ \E fault \in BOOLEAN : EditGetTree(fault)
    \/ \E viewer \in Viewers, id \in TreeIds : TreeDetailPage(viewer, id)
    \/ \E userAuthError \in BOOLEAN : DetailGetUser(userAuthError)
    \/ \E fault \in BOOLEAN : DetailProfileLookup(fault)
    \/ \E fault \in BOOLEAN : DetailGetTree(fault)

SpecPages == InitPages /\ [][NextPages]_vars

InitDash ==
    /\ AdminIdle /\ PagesIdle /\ SearchIdle /\ FormIdle /\ ProxyIdle /\ PagingIdle /\ DetailIdle /\ UsersIdle /\ SeedIdle
    /\ DashConstructed /\ dash_session \in Viewers

NextDash ==
    \/ \E signedOut \in BOOLEAN : DashAuthEvent(signedOut)
    \/ \E i \in 1..MaxInFlight, res \in ProfileResults : DashLookupDone(i, res)
    \/ \E i \in 1..MaxInFlight, error \in BOOLEAN : DashFetchDone(i, error)
    \/ GoToPreviousPage
    \/ GoToNextPage
    \/ \E i \in 0..4 : PageNumberClick(i)
    \/ \E value \in DashQueries : HandleSearchChange(value)

SpecDash == InitDash /\ [][NextDash]_vars

InitSearch ==
    /\ AdminIdle /\ PagesIdle /\ DashIdle /\ FormIdle /\ ProxyIdle /\ PagingIdle /\ DetailIdle /\ UsersIdle /\ SeedIdle
    /\ s_table \in SmallTables
    /\ s_seeded = FALSE
    /\ s_query = <<>>
    /\ s_page = 0
    /\ s_pageSize = PAGE_SIZE
    /\ s_error = FALSE
    /\ s_result = Null

NextSearch ==
    \/ \E failed \in SeedFailures : SearchSeed(failed)
    \/ \E page \in 0..1, pageSize \in {1, PAGE_SIZE}, error \in BOOLEAN,
          searchQuery \in SmallQueries \cup ReadmeQueries :
            SearchFetch(page, pageSize, searchQuery, error)

SpecSearch == InitSearch /\ [][NextSearch]_vars

InitForm == AdminIdle /\ PagesIdle /\ DashIdle /\ SearchIdle /\ FormIdle /\ ProxyIdle /\ PagingIdle /\ DetailIdle /\ UsersIdle /\ SeedIdle

NextForm ==
    \/ FormOpenNew
    \/ \E i \in 1..MaxSubmits : FormOpenEdit(i)
    \/ \E files \in FileLists : FormSelectImages(files)
    \/ \E typed \in {Null} \cup {Some(data) : data \in FormInputs} : FormSubmit(typed)
    \/ \E res \in FormAuthResults : FormGetUser(res)
    \/ \E error \in BOOLEAN : FormWriteDone(error)
    \/ FormRemoveOldDone
    \/ \E error \in BOOLEAN : FormDeleteRowsDone(error)
    \/ \E failed \in SUBSET (1..MaxFiles) : FormUploadDone(failed)
    \/ \E error \in BOOLEAN : FormInsertImagesDone(error)
    \/ FormBack

SpecForm == InitForm /\ [][NextForm]_vars

InitProxy ==
    AdminIdle /\ PagesIdle /\ DashIdle /\ SearchIdle /\ FormIdle /\ ProxyIdle /\ PagingIdle /\ DetailIdle /\ UsersIdle /\ SeedIdle

NextProxy ==
    \/ \E route \in ProxyRoutes, body \in RequestBodies, authHeader \in AuthHeaders :
          ProxyPost(route, body, authHeader)
    \/ ProxyRead
    \/ \E reply \in RemoteReplies : ProxyFetchAnswered(reply)
    \/ \E message \in FetchErrorMessages : ProxyFetchThrows(message)

SpecProxy == InitProxy /\ [][NextProxy]_vars

InitSeed ==
    AdminIdle /\ PagesIdle /\ DashIdle /\ SearchIdle /\ FormIdle /\ ProxyIdle /\ PagingIdle /\ DetailIdle /\ UsersIdle /\ SeedIdle

NextSeed ==
    \/ \E configured \in BOOLEAN, run \in RandomRuns : SeedStart(configured, run)
    \/ \E error \in BOOLEAN : SeedTreeInserted(error)
    \/ \E error \in BOOLEAN : SeedImagesInserted(error)

SpecSeed == InitSeed /\ [][NextSeed]_vars

InitUsers ==
    /\ AdminIdle /\ PagesIdle /\ DashIdle /\ SearchIdle /\ FormIdle /\ ProxyIdle /\ PagingIdle /\ DetailIdle /\ SeedIdle
    /\ \E version \in {"shared", "granular"}, serverError \in BOOLEAN :
          UsersConstructed(version, serverError)

NextUsers ==
    \/ UsersMount
    \/ \E i \in 1..MaxUserOps, user \in {Null, Some(OwnId)} : UsersGetUserDone(i, user)
    \/ \E i \in 1..MaxUserOps, error \in BOOLEAN : UsersRolesDone(i, error)
    \/ \E i \in 1..MaxUserOps, error \in BOOLEAN : UsersFetchDone(i, error)
    \/ \E value \in UserQueries : UserSearchChange(value)
    \/ UserGoToPreviousPage
    \/ UserGoToNextPage
    \/ \E profileId \in TargetIds, newRoleName \in RoleNames :
          UserRoleChange(profileId, newRoleName)
    \/ \E i \in 1..MaxUserOps, error \in BOOLEAN : UserRoleUpdateDone(i, error)
    \/ \E roleName \in RoleNames : UserCreateSubmit(roleName)
    \/ \E i \in 1..MaxUserOps, session \in BOOLEAN : UserCreateSessionDone(i, session)
    \/ \E i \in 1..MaxUserOps, outcome \in ProxyOutcomes : UserCreateFetchDone(i, outcome)
    \/ \E userIdToDelete \in TargetIds, confirmed \in BOOLEAN :
          UserDeleteClick(userIdToDelete, confirmed)
    \/ \E i \in 1..MaxUserOps, session \in BOOLEAN : UserDeleteSessionDone(i, session)
    \/ \E i \in 1..MaxUserOps, outcome \in ProxyOutcomes : UserDeleteFetchDone(i, outcome)

SpecUsers == InitUsers /\ [][NextUsers]_vars


InitDetail ==
    /\ AdminIdle /\ PagesIdle /\ DashIdle /\ SearchIdle /\ FormIdle /\ ProxyIdle /\ PagingIdle
    /\ SeedIdle /\ UsersIdle
    /\ \E names \in UNION {[1..n -> FileNames] : n \in 0..MaxDetailImages},
          isAdmin \in BOOLEAN :
            DetailConstructed(names, isAdmin)

NextDetail ==
    \/ \E confirmed \in BOOLEAN : DetailDeleteClick(confirmed)
    \/ \E w \in [attempt : 1..MaxDeleteAttempts, image : 1..MaxDetailImages],
          outcome \in RemoveOutcomes :
            DetailRemoveAnswered(w, outcome)
    \/ \E error \in BOOLEAN : DetailRowDeleteAnswered(error)

SpecDetail == InitDetail /\ [][NextDetail]_vars

\* The three client pages: the browser is on /dashboard, where
\* DashboardPage is rendered, on /admin, where the user manager is, or on
\* the detail page of a tree
InitBrowser ==
    /\ AdminIdle /\ PagesIdle /\ SearchIdle /\ FormIdle /\ ProxyIdle /\ PagingIdle /\ SeedIdle
    /\ \/ /\ DashConstructedAt("/dashboard")
          /\ dash_session \in Viewers
          /\ UsersConstructedAt("shared", FALSE, "/dashboard")
          /\ DetailConstructedAt(<<>>, FALSE, "/dashboard")
       \/ /\ DashConstructedAt("/admin")
          /\ dash_session = Null
          /\ \E version \in {"shared", "granular"}, serverError \in BOOLEAN :
                UsersConstructedAt(version, serverError, "/admin")
          /\ DetailConstructedAt(<<>>, FALSE, "/admin")
       \/ /\ DashConstructedAt("/trees/[id]")
          /\ dash_session = Null
          /\ UsersConstructedAt("shared", FALSE, "/trees/[id]")
          /\ \E names \in UNION {[1..n -> FileNames] : n \in 0..MaxDetailImages},
                isAdmin \in BOOLEAN :
                  DetailConstructedAt(names, isAdmin, "/trees/[id]")

NextBrowser == NextDash \/ NextUsers \/ NextDetail

SpecBrowser == InitBrowser /\ [][NextBrowser]_vars

\* The paging of a list, for every count and page size within the bounds
InitPaging ==
    /\ AdminIdle /\ PagesIdle /\ DashIdle /\ SearchIdle /\ FormIdle /\ ProxyIdle
    /\ DetailIdle /\ UsersIdle /\ SeedIdle
    /\ \E count \in 1..MaxCount, pageSize \in PageSizes :
          /\ Ceil(count, pageSize) <= MaxPages
          /\ PagingConstructed(count, pageSize)

NextPaging ==
    \/ PagingGoToPreviousPage
    \/ PagingGoToNextPage
    \/ \E k \in 1..5 : PagingPageNumberClick(k)

SpecPaging == InitPaging /\ [][NextPaging]_vars

=========================================================================
